---------------------------- MODULE Spec2Model ----------------------------
(***************************************************************************)
(* A model of the video-frame distribution subsystem of BreakingNewsEffects *)
(* (src/displays): the HTTP (MJPEG) and UDP fallback streamers, the NDI and *)
(* Spout senders and the sink selection of ScrollingNewsDisplay.            *)
(*                                                                          *)
(* Every object under study is a record holding the fields of the Python    *)
(* object.  The variable sut names the object a run exercises; each         *)
(* specification starts from the state right after that object's            *)
(* constructor has returned.                                                *)
(***************************************************************************)
EXTENDS Integers, Sequences, FiniteSets, TLC

VARIABLES
    sut,          \* which object this run constructs and drives
    now,          \* the value time.time() returns, in clock ticks
    http,         \* the HTTPVideoStreamer object
    frame_queue,  \* HTTPVideoStreamer.frame_queue (queue.Queue(maxsize=10))
    hsend,        \* the thread inside HTTPVideoStreamer.send_frame
    hhandler,     \* the server thread: serve_forever / StreamHandler
    hstop,        \* the thread inside HTTPVideoStreamer.stop
    hlog,         \* observations of the HTTP sink: returns, enqueues, releases
    conn,         \* the request a StreamHandler answers, and its response
    udp,          \* the UDPVideoStreamer object
    usend,        \* the thread inside UDPVideoStreamer.send_frame
    ustop,        \* the thread inside UDPVideoStreamer.stop
    wire,         \* the datagrams written with socket.sendto, in order
    ulog,         \* observations of the UDP sink: returns, releases
    NDI_METHOD,   \* ndi_sender.NDI_METHOD, fixed when the module is imported
    ndi,          \* the NDISender object
    ncalls,       \* the calls made on the NDISender so far
    nlog,         \* observations of the NDI sink: returns, backend calls
    spout,        \* the SpoutSender object
    scalls,       \* the calls made on the SpoutSender so far
    slog,         \* observations of the Spout sink: returns, backend calls
    codec,        \* one frame inside the conversion of a local sink's send_frame
    display,      \* the ScrollingNewsDisplay object and the position in __init__
    dlog,         \* observations of the display: senders constructed and used
    rcall,        \* one call on a sink, from its caller down to the backend
    scrolling_queue,  \* ScrollingNewsDisplay.scrolling_queue, a list
    monitor       \* the feed-monitor threads and the ticker of the main thread

httpVars == <<http, frame_queue, hsend, hhandler, hstop, hlog, conn>>

udpVars == <<udp, usend, ustop, wire, ulog>>

ndiVars == <<NDI_METHOD, ndi, ncalls, nlog>>

spoutVars == <<spout, scalls, slog, codec>>

newsVars == <<scrolling_queue, monitor>>

displayVars == <<display, dlog, rcall, newsVars>>

vars == <<sut, now, httpVars, udpVars, ndiVars, spoutVars, displayVars>>

\* what the actions of one sink leave alone
notHTTP == <<udpVars, ndiVars, spoutVars, displayVars>>

notUDP == <<httpVars, ndiVars, spoutVars, displayVars>>

notNDI == <<httpVars, udpVars, spoutVars, displayVars>>

notSpout == <<httpVars, udpVars, ndiVars, displayVars>>

(***************************************************************************)
(* Bounds of the model                                                      *)
(***************************************************************************)
\* send_frame calls made on one sink in one run
MaxFrames == 12
\* stop() calls made on one sink in one run
MaxStops == 2
\* offered frames that are malformed or fail to encode, per run
MaxBadFrames == 1
\* clients that connect to /stream.mjpg in one run
MaxClients == 2
\* clock ticks that pass in one run of a sink driven alone
MaxTime == 2
\* update() calls made on one display in one run
MaxTicks == 8
\* clock ticks in one frame interval (1 / fps)
FrameInterval == 2
\* send_frame calls made on one rate-limited sink driven alone
MaxUDPFrames == 2
\* socket.sendto calls that raise, per run
MaxSendFail == 1
\* the largest payloads offered need this many fragments and one more
MaxChunks == 2

\* the requests made to one server
MaxRequests == 2

\* the frames sent while requests are answered
MaxGetFrames == 2

None == "None"

\* time.time() when the first frame is offered: more than one frame interval
\* after the epoch, where last_frame_time starts
StartTime == FrameInterval

Min(a, b) == IF a < b THEN a ELSE b

\* Python's s[lo:hi] on a sequence, 0-based, hi exclusive, clamped
Slice(s, lo, hi) ==
    LET h == Min(hi, Len(s))
    IN  IF lo >= h THEN <<>> ELSE [k \in 1..(h - lo) |-> s[lo + k]]

\* the last n elements of s (all of s when it is shorter)
LastN(s, n) == Slice(s, Len(s) - Min(n, Len(s)), Len(s))

(***************************************************************************)
(* Frames.  An offered frame is identified by the number of the call that   *)
(* offers it; kind says whether the array has a supported shape and whether *)
(* cv2.imencode succeeds on it.                                             *)
(***************************************************************************)
FrameKinds == {"ok", "bad_shape", "encode_fail"}

\* a shape test that lets every array pass
SupportedShape_Any(kind) == TRUE

\* len(shape) == 3 and shape[2] in (3, 4)
SupportedShape(kind) == kind # "bad_shape"

\* success flag of cv2.imencode('.jpg', ...)
EncodeOk(kind) == kind # "encode_fail"

(***************************************************************************)
(* queue.Queue(maxsize)                                                     *)
(***************************************************************************)
\* HTTPVideoStreamer.__init__: queue.Queue(maxsize=10)
QueueMaxSize == 10

\* a queue that takes one frame more than maxsize
QueueFull_OffByOne(q) == Len(q) > QueueMaxSize

\* Queue.full()
QueueFull(q) == Len(q) >= QueueMaxSize

\* Queue.put_nowait when not full (the caller tests QueueFull first)
\* a put that goes in front of the frames already queued
QueuePut_Front(q, x) == <<x>> \o q

QueuePut(q, x) == Append(q, x)

\* a queue that gives up its newest frame
QueueGet_Newest(q) == SubSeq(q, 1, Len(q) - 1)

\* Queue.get_nowait / Queue.get when not empty
QueueGet(q) == Tail(q)

(***************************************************************************)
(* HTTPVideoStreamer                                                        *)
(***************************************************************************)
\* HTTPVideoStreamer.__init__ + _initialize; ok: HTTPServer((host, port)) bound
HTTPVideoStreamer_init(ok) ==
    [ is_initialized |-> ok,
      is_sending     |-> ok,
      frame_count    |-> 0,
      server         |-> IF ok THEN "serving" ELSE None,
      server_thread  |-> IF ok THEN "running" ELSE None ]

HSendIdle == [pc |-> "idle", frame |-> 0, calls |-> 0, bad |-> 0]

\* clients: GET /stream.mjpg requests made so far; waiting: the requests the
\* serving thread has not accepted yet
HHandlerIdle == [pc |-> "idle", frame |-> 0, clients |-> 0, waiting |-> 0]

HStopIdle == [pc |-> "idle", stops |-> 0]

\* no request has reached the server. requests: the requests made so far;
\* gets: frame_queue.get was called for the request; parts: what the five
\* writes of each loop pass put on wfile; jpeg_len[id]: len() of the bytes
\* cv2.imencode gives for frame id
ConnIdle == [pc |-> "idle", requests |-> 0, path |-> None, status |-> 0,
             headers |-> <<>>, body |-> None, gets |-> FALSE, frame |-> 0,
             parts |-> <<>>, jpeg_len |-> <<>>]

HLogEmpty == [returns |-> <<>>, enqueued |-> <<>>, dequeued |-> <<>>,
              evicted |-> <<>>, releases |-> <<>>]

\* the HTTP sink and its threads before any call; ok: the constructor's outcome
FreshHTTP(ok) ==
    /\ http = HTTPVideoStreamer_init(ok)
    /\ frame_queue = <<>>
    /\ hsend = HSendIdle
    /\ hhandler = HHandlerIdle
    /\ hstop = HStopIdle
    /\ hlog = HLogEmpty
    /\ conn = ConnIdle

\* a send_frame call returns ret for the frame it was given; accepted: the
\* sink was initialised and the frame converted and encoded
HReturn(log, id, accepted, ret) ==
    [log EXCEPT !.returns =
        Append(@, [id |-> id, accepted |-> accepted, ret |-> ret])]

\* send_frame, up to the first put_nowait: the is_initialized test, the shape
\* test, the resize and the JPEG encode
HTTP_send_frame_begin ==
    /\ sut = "http"
    /\ hsend.pc = "idle"
    /\ hsend.calls < MaxFrames
    /\ \E kind \in FrameKinds :
         LET id == hsend.calls + 1 IN
         /\ kind # "ok" => hsend.bad < MaxBadFrames
         /\ IF ~http.is_initialized
              THEN /\ hsend' = [hsend EXCEPT !.calls = id]
                   /\ hlog' = HReturn(hlog, id, FALSE, FALSE)
              ELSE IF ~SupportedShape(kind) \/ ~EncodeOk(kind)
              THEN /\ hsend' = [hsend EXCEPT !.calls = id, !.bad = @ + 1]
                   /\ hlog' = HReturn(hlog, id, FALSE, FALSE)
              ELSE /\ hsend' = [hsend EXCEPT !.calls = id, !.pc = "put",
                                             !.frame = id]
                   /\ hlog' = hlog
    /\ UNCHANGED <<notHTTP, conn, sut, now, http, frame_queue, hhandler, hstop>>

\* self.frame_count += 1; return True
HTTP_send_frame_return_true(log) ==
    /\ http' = [http EXCEPT !.frame_count = @ + 1]
    /\ hsend' = [hsend EXCEPT !.pc = "idle"]
    /\ hlog' = HReturn(log, hsend.frame, TRUE, TRUE)

\* self.frame_queue.put_nowait(jpeg_data.tobytes()), raising queue.Full or not
HTTP_send_frame_put ==
    /\ sut = "http"
    /\ hsend.pc = "put"
    /\ IF QueueFull(frame_queue)
         THEN /\ hsend' = [hsend EXCEPT !.pc = "full"]
              /\ UNCHANGED <<http, frame_queue, hlog>>
         ELSE /\ frame_queue' = QueuePut(frame_queue, hsend.frame)
              /\ HTTP_send_frame_return_true(
                     [hlog EXCEPT !.enqueued = Append(@, hsend.frame)])
    /\ UNCHANGED <<notHTTP, conn, sut, now, hhandler, hstop>>

\* except queue.Full: self.frame_queue.get_nowait(); queue.Empty is passed over
HTTP_send_frame_drop_oldest ==
    /\ sut = "http"
    /\ hsend.pc = "full"
    /\ IF frame_queue = <<>>
         THEN /\ HTTP_send_frame_return_true(hlog)
              /\ UNCHANGED frame_queue
         ELSE /\ frame_queue' = QueueGet(frame_queue)
              /\ hsend' = [hsend EXCEPT !.pc = "reput"]
              /\ hlog' = [hlog EXCEPT !.evicted = Append(@, Head(frame_queue))]
              /\ UNCHANGED http
    /\ UNCHANGED <<notHTTP, conn, sut, now, hhandler, hstop>>

\* the second put_nowait; a queue.Full here reaches the outer except: return False
HTTP_send_frame_reput ==
    /\ sut = "http"
    /\ hsend.pc = "reput"
    /\ IF QueueFull(frame_queue)
         THEN /\ hsend' = [hsend EXCEPT !.pc = "idle"]
              /\ hlog' = HReturn(hlog, hsend.frame, TRUE, FALSE)
              /\ UNCHANGED <<http, frame_queue>>
         ELSE /\ frame_queue' = QueuePut(frame_queue, hsend.frame)
              /\ HTTP_send_frame_return_true(
                     [hlog EXCEPT !.enqueued = Append(@, hsend.frame)])
    /\ UNCHANGED <<notHTTP, conn, sut, now, hhandler, hstop>>

\* the calls stop() makes to release the server
HRelease(log, call) == [log EXCEPT !.releases = Append(@, call)]

\* a client connects to the listening socket and requests /stream.mjpg
HTTP_client_request ==
    /\ sut = "http"
    /\ http.server \in {"serving", "shutdown_requested", "shut"}
    /\ hhandler.clients < MaxClients
    /\ hhandler' = [hhandler EXCEPT !.clients = @ + 1, !.waiting = @ + 1]
    /\ UNCHANGED <<notHTTP, conn, sut, now, http, frame_queue, hsend, hstop, hlog>>

\* serve_forever accepts a GET /stream.mjpg and runs send_mjpeg_stream up to
\* its loop: send_response(200), the headers, end_headers
HTTP_handler_connect ==
    /\ sut = "http"
    /\ hhandler.pc = "idle"
    /\ http.server = "serving"
    /\ hhandler.waiting > 0
    /\ hhandler' = [hhandler EXCEPT !.pc = "loop", !.waiting = @ - 1]
    /\ UNCHANGED <<notHTTP, conn, sut, now, http, frame_queue, hsend, hstop, hlog>>

\* while self.streamer.is_sending:
HTTP_handler_check ==
    /\ sut = "http"
    /\ hhandler.pc = "loop"
    /\ hhandler' = [hhandler EXCEPT
                      !.pc = IF http.is_sending THEN "get" ELSE "idle"]
    /\ UNCHANGED <<notHTTP, conn, sut, now, http, frame_queue, hsend, hstop, hlog>>

\* frame_data = self.streamer.frame_queue.get(timeout=1.0); on queue.Empty: continue
HTTP_handler_get ==
    /\ sut = "http"
    /\ hhandler.pc = "get"
    /\ IF frame_queue = <<>>
         THEN /\ hhandler' = [hhandler EXCEPT !.pc = "loop"]
              /\ UNCHANGED <<frame_queue, hlog>>
         ELSE /\ frame_queue' = QueueGet(frame_queue)
              /\ hhandler' = [hhandler EXCEPT !.pc = "write",
                                              !.frame = Head(frame_queue)]
              /\ hlog' = [hlog EXCEPT !.dequeued = Append(@, Head(frame_queue))]
    /\ UNCHANGED <<notHTTP, conn, sut, now, http, hsend, hstop>>

\* the five wfile.write calls of one part; an exception (client gone) breaks
\* out of the loop and the handler returns; a client that has stopped reading
\* leaves the write blocked on the socket, which has no timeout
HTTP_handler_write ==
    /\ sut = "http"
    /\ hhandler.pc = "write"
    /\ \E outcome \in {"written", "raised", "blocked"} :
         hhandler' = [hhandler EXCEPT
             !.pc = IF outcome = "written" THEN "loop"
                    ELSE IF outcome = "raised" THEN "idle" ELSE "blocked",
             !.frame = IF outcome = "blocked" THEN @ ELSE 0]
    /\ UNCHANGED <<notHTTP, conn, sut, now, http, frame_queue, hsend, hstop, hlog>>

\* the client of a blocked write reads again, or closes its connection
HTTP_client_resume ==
    /\ sut = "http"
    /\ hhandler.pc = "blocked"
    /\ \E reads \in BOOLEAN :
         hhandler' = [hhandler EXCEPT !.pc = IF reads THEN "loop" ELSE "idle",
                                      !.frame = 0]
    /\ UNCHANGED <<notHTTP, conn, sut, now, http, frame_queue, hsend, hstop, hlog>>

\* serve_forever leaves its loop once shutdown was requested and no request
\* is being handled (HTTPServer handles requests on the serving thread)
HTTP_serve_forever_exit ==
    /\ sut = "http"
    /\ http.server = "shutdown_requested"
    /\ hhandler.pc = "idle"
    /\ http' = [http EXCEPT !.server = "shut", !.server_thread = "exited"]
    /\ UNCHANGED <<notHTTP, conn, sut, now, frame_queue, hsend, hhandler, hstop, hlog>>

\* stop(): self.is_sending = False; if self.server:
HTTP_stop_begin ==
    /\ sut = "http"
    /\ hstop.pc = "idle"
    /\ hstop.stops < MaxStops
    /\ http' = [http EXCEPT !.is_sending = FALSE]
    /\ hstop' = [hstop EXCEPT
                   !.pc = IF http.server # None THEN "shutdown" ELSE "finish"]
    /\ UNCHANGED <<notHTTP, conn, sut, now, frame_queue, hsend, hhandler, hlog>>

\* self.server.shutdown(): sets the shutdown request, then waits for the loop
HTTP_stop_shutdown ==
    /\ sut = "http"
    /\ hstop.pc = "shutdown"
    /\ http' = [http EXCEPT !.server = IF @ = "serving"
                                         THEN "shutdown_requested" ELSE @]
    /\ hstop' = [hstop EXCEPT !.pc = "wait"]
    /\ hlog' = HRelease(hlog, "shutdown")
    /\ UNCHANGED <<notHTTP, conn, sut, now, frame_queue, hsend, hhandler>>

\* shutdown() returns; self.server.server_close();
\* self.server_thread.join(timeout=2.0); self.is_initialized = False
HTTP_stop_close ==
    /\ sut = "http"
    /\ hstop.pc = "wait"
    /\ http.server # "shutdown_requested"
    /\ http' = [http EXCEPT !.server = "closed", !.is_initialized = FALSE]
    /\ hstop' = [hstop EXCEPT !.pc = "idle", !.stops = @ + 1]
    /\ hlog' = HRelease(HRelease(hlog, "server_close"), "join")
    /\ UNCHANGED <<notHTTP, conn, sut, now, frame_queue, hsend, hhandler>>

\* stop() when self.server is None: self.is_initialized = False
HTTP_stop_finish ==
    /\ sut = "http"
    /\ hstop.pc = "finish"
    /\ http' = [http EXCEPT !.is_initialized = FALSE]
    /\ hstop' = [hstop EXCEPT !.pc = "idle", !.stops = @ + 1]
    /\ UNCHANGED <<notHTTP, conn, sut, now, frame_queue, hsend, hhandler, hlog>>

NextHTTP ==
    \/ HTTP_client_request
    \/ HTTP_client_resume
    \/ HTTP_send_frame_begin
    \/ HTTP_send_frame_put
    \/ HTTP_send_frame_drop_oldest
    \/ HTTP_send_frame_reput
    \/ HTTP_handler_connect
    \/ HTTP_handler_check
    \/ HTTP_handler_get
    \/ HTTP_handler_write
    \/ HTTP_serve_forever_exit
    \/ HTTP_stop_begin
    \/ HTTP_stop_shutdown
    \/ HTTP_stop_close
    \/ HTTP_stop_finish


(***************************************************************************)
(* Byte strings.  A byte string is a sequence of runs; a run is the bytes   *)
(* lo .. hi-1 of one blob: a packed header (src "NDIS" or "FRAG", with its  *)
(* fields a, b, c) or the JPEG data of a frame (src "JPEG", a the frame).   *)
(***************************************************************************)
RECURSIVE BLen(_)
\* len(bytes)
BLen(bs) == IF bs = <<>> THEN 0 ELSE (Head(bs).hi - Head(bs).lo) + BLen(Tail(bs))

SameBlob(r, q) ==
    r.src = q.src /\ r.a = q.a /\ r.b = q.b /\ r.c = q.c /\ r.w = q.w

\* bytes + bytes
BCat(x, y) ==
    IF x = <<>> THEN y
    ELSE IF y = <<>> THEN x
    ELSE LET l == x[Len(x)]
             f == y[1]
         IN  IF SameBlob(l, f) /\ l.hi = f.lo
               THEN SubSeq(x, 1, Len(x) - 1) \o <<[l EXCEPT !.hi = f.hi]>> \o Tail(y)
               ELSE x \o y

RECURSIVE BSlice(_, _, _)
\* bytes[s:e] for 0 <= s
BSlice(bs, s, e) ==
    IF bs = <<>> \/ e <= s THEN <<>>
    ELSE LET r == Head(bs)
             n == r.hi - r.lo
         IN  IF s >= n THEN BSlice(Tail(bs), s - n, e - n)
             ELSE BCat(<<[r EXCEPT !.lo = r.lo + s, !.hi = r.lo + Min(e, n)]>>,
                       BSlice(Tail(bs), 0, e - n))

\* struct.calcsize('!IIIIQ')
HeaderSize == 24

\* struct.calcsize('!IIII')
FragmentHeaderSize == 16

\* jpeg_data.tobytes() of frame id, size bytes long
JpegBytes(id, size) ==
    IF size = 0 THEN <<>>
    ELSE <<[src |-> "JPEG", a |-> id, b |-> 0, c |-> 0, w |-> 0,
            lo |-> 0, hi |-> size]>>

\* self.frame_count is a Python int, which has no upper limit, and TLC's
\* integers end at 2^31 - 1: the sink keeps it as udp.frame_count_hi * 2^16 +
\* udp.frame_count with 0 <= udp.frame_count < 2^16
LimbBase == 65536

\* self.frame_count += 1
IncFrameCount(u) ==
    IF u.frame_count = LimbBase - 1
      THEN [u EXCEPT !.frame_count = 0, !.frame_count_hi = @ + 1]
      ELSE [u EXCEPT !.frame_count = @ + 1]

\* struct.pack raises struct.error for an 'I' field outside 0 .. 2^32 - 1:
\* self.frame_count fits when its upper part is below 2^16
struct_pack_I_ok(u) == u.frame_count_hi < LimbBase

\* struct.pack('!IIIIQ', 0x4E444953, frame_count, width, height, timestamp);
\* w: the upper 16 bits of the frame_count field
PackFrameHeader(frame_count, timestamp) ==
    <<[src |-> "NDIS", a |-> frame_count, b |-> timestamp, c |-> 0,
       w |-> udp.frame_count_hi,
       lo |-> 0, hi |-> HeaderSize]>>

\* struct.pack('!IIII', 0x46524147, frame_count, i, total_chunks)
PackFragmentHeader(frame_count, i, total_chunks) ==
    <<[src |-> "FRAG", a |-> frame_count, b |-> i, c |-> total_chunks,
       w |-> udp.frame_count_hi,
       lo |-> 0, hi |-> FragmentHeaderSize]>>

(***************************************************************************)
(* UDPVideoStreamer                                                         *)
(***************************************************************************)
\* _send_packet: max_packet_size
max_packet_size == 65507

\* a chunk size that leaves no room for the fragment header
chunk_size_WholeDatagram == max_packet_size

\* _send_packet: chunk_size
chunk_size == max_packet_size - FragmentHeaderSize

\* _create_packet(jpeg_data)
UDP_create_packet(jpeg_data, frame_count, timestamp) ==
    BCat(PackFrameHeader(frame_count, timestamp), jpeg_data)

\* a chunk count that rounds down
total_chunks_RoundDown(packet_data) == BLen(packet_data) \div chunk_size

\* _send_packet: total_chunks
total_chunks(packet_data) == (BLen(packet_data) + chunk_size - 1) \div chunk_size

\* a fragment whose chunk stops one byte early
UDP_fragment_packet_ShortChunk(packet_data, frame_count, i) ==
    LET start_idx == i * chunk_size
        end_idx == Min(start_idx + chunk_size, BLen(packet_data)) - 1
    IN  BCat(PackFragmentHeader(frame_count, i, total_chunks(packet_data)),
             BSlice(packet_data, start_idx, end_idx))

\* _send_packet: the fragment packet built in iteration i of the loop
UDP_fragment_packet(packet_data, frame_count, i) ==
    LET start_idx == i * chunk_size
        end_idx == Min(start_idx + chunk_size, BLen(packet_data))
    IN  BCat(PackFragmentHeader(frame_count, i, total_chunks(packet_data)),
             BSlice(packet_data, start_idx, end_idx))

\* a framer that fragments a packet of exactly max_packet_size bytes
UDP_send_packet_StrictLimit(packet_data, frame_count) ==
    IF BLen(packet_data) < max_packet_size
      THEN <<packet_data>>
      ELSE [k \in 1..total_chunks(packet_data) |->
              UDP_fragment_packet(packet_data, frame_count, k - 1)]

\* a framer that writes the last fragment first
UDP_send_packet_Reversed(packet_data, frame_count) ==
    IF BLen(packet_data) <= max_packet_size
      THEN <<packet_data>>
      ELSE [k \in 1..total_chunks(packet_data) |->
              UDP_fragment_packet(packet_data, frame_count,
                                  total_chunks(packet_data) - k)]

\* _send_packet: the datagrams handed to socket.sendto, in order
UDP_send_packet(packet_data, frame_count) ==
    IF BLen(packet_data) <= max_packet_size
      THEN <<packet_data>>
      ELSE [k \in 1..total_chunks(packet_data) |->
              UDP_fragment_packet(packet_data, frame_count, k - 1)]

\* UDPVideoStreamer.__init__ + _initialize; ok: socket.socket() succeeded
UDPVideoStreamer_init(ok) ==
    [ socket          |-> IF ok THEN "open" ELSE None,
      is_initialized  |-> ok,
      is_sending      |-> ok,
      frame_count     |-> 0,
      frame_count_hi  |-> 0,
      last_frame_time |-> 0 ]

\* the sizes of the JPEG data offered: the largest that fits one datagram
\* with its header, one byte more, and the two sizes around MaxChunks full
\* chunks
JpegSizes ==
    {max_packet_size - HeaderSize, max_packet_size - HeaderSize + 1}
    \cup {MaxChunks * chunk_size - HeaderSize + d : d \in {0, 1}}

USendIdle == [pc |-> "idle", frame |-> 0, calls |-> 0, bad |-> 0, fails |-> 0,
              kind |-> "ok", size |-> 0, current_time |-> 0,
              last |-> 0, pending |-> <<>>, i |-> 0]

UStopIdle == [pc |-> "idle", stops |-> 0]

\* what a finished send_frame call was given, read, wrote and returned
NoCall == [id |-> 0, path |-> "none", kind |-> "ok", size |-> 0,
           current_time |-> 0, last |-> 0, planned |-> 0, written |-> 0,
           last_after |-> 0, ret |-> FALSE]

\* the last finished send_frame call, the offer times of the frames sent in
\* full, and the release calls made by stop()
ULogEmpty == [call |-> NoCall, accepted |-> <<>>, releases |-> <<>>]

\* the UDP sink and its threads before any call; ok: the constructor's outcome
FreshUDP(ok) ==
    /\ udp = UDPVideoStreamer_init(ok)
    /\ usend = USendIdle
    /\ ustop = UStopIdle
    /\ wire = <<>>
    /\ ulog = ULogEmpty

\* the record of a call that returns ret on the given path of send_frame
CallRecord(call, path, ret, written, last_after) ==
    [id |-> call.frame, path |-> path, kind |-> call.kind,
     size |-> call.size, current_time |-> call.current_time,
     last |-> call.last, planned |-> Len(call.pending),
     written |-> written, last_after |-> last_after, ret |-> ret]

\* the sending thread is back outside send_frame
USendDone(call) ==
    [USendIdle EXCEPT !.calls = call.calls, !.bad = call.bad,
                      !.fails = call.fails]

\* send_frame up to the call of _send_packet: the initialised test, the lock,
\* the frame-rate test, the conversion, the JPEG encode and _create_packet,
\* whose struct.pack raises when frame_count does not fit 32 bits
UDP_send_frame_begin ==
    /\ sut = "udp"
    /\ usend.pc = "idle"
    /\ usend.calls < MaxUDPFrames
    /\ \E kind \in FrameKinds, size \in JpegSizes :
         LET id == usend.calls + 1
             call == [usend EXCEPT !.frame = id, !.calls = id, !.kind = kind,
                                   !.size = size, !.current_time = now,
                                   !.last = udp.last_frame_time]
             packet_data == UDP_create_packet(JpegBytes(id, size),
                                              udp.frame_count, now)
             return(path, ret) ==
                 ulog' = [ulog EXCEPT !.call =
                     CallRecord(call, path, ret, 0, udp.last_frame_time)]
         IN
         /\ kind # "ok" => usend.bad < MaxBadFrames
         /\ IF ~udp.is_initialized \/ udp.socket = None
              THEN /\ usend' = USendDone(call)
                   /\ return("uninitialized", FALSE)
              ELSE IF now - udp.last_frame_time < FrameInterval
              THEN /\ usend' = USendDone(call)
                   /\ return("rate_limited", TRUE)
              ELSE IF ~SupportedShape(kind) \/ ~EncodeOk(kind)
              THEN /\ usend' = USendDone([call EXCEPT !.bad = @ + 1])
                   /\ return("convert", FALSE)
              ELSE IF ~struct_pack_I_ok(udp)
              THEN /\ usend' = USendDone(call)
                   /\ return("pack_raised", FALSE)
              ELSE /\ usend' = [call EXCEPT !.pc = "sendto",
                        !.pending = UDP_send_packet(packet_data, udp.frame_count)]
                   /\ ulog' = ulog
    /\ UNCHANGED <<notUDP, sut, now, udp, ustop, wire>>

\* one self.socket.sendto(...) of _send_packet; after the last one
\* self.frame_count += 1; self.last_frame_time = current_time; return True.
\* A sendto that raises, or self.socket being None, ends the call: return False
UDP_send_frame_sendto ==
    /\ sut = "udp"
    /\ usend.pc = "sendto"
    /\ \E raises \in BOOLEAN :
         /\ raises => (udp.socket # None /\ usend.fails < MaxSendFail)
         /\ IF raises \/ udp.socket = None
              THEN /\ usend' = USendDone([usend EXCEPT
                                  !.fails = IF raises THEN @ + 1 ELSE @])
                   /\ ulog' = [ulog EXCEPT !.call =
                         CallRecord(usend, "sendto_raised", FALSE, usend.i,
                                    udp.last_frame_time)]
                   /\ UNCHANGED <<udp, wire>>
              ELSE /\ wire' = Append(wire, [bytes |-> usend.pending[usend.i + 1],
                                            frame |-> usend.frame])
                   /\ IF usend.i + 1 < Len(usend.pending)
                        THEN /\ usend' = [usend EXCEPT !.i = @ + 1]
                             /\ UNCHANGED <<udp, ulog>>
                        ELSE /\ udp' = [IncFrameCount(udp) EXCEPT
                                   !.last_frame_time = usend.current_time]
                             /\ usend' = USendDone(usend)
                             /\ ulog' = [ulog EXCEPT
                                   !.call = CallRecord(usend, "sent", TRUE,
                                       usend.i + 1, usend.current_time),
                                   !.accepted = Append(@, usend.current_time)]
    /\ UNCHANGED <<notUDP, sut, now, ustop>>

\* stop(): self.is_sending = False; if self.socket:
UDP_stop_begin ==
    /\ sut = "udp"
    /\ ustop.pc = "idle"
    /\ ustop.stops < MaxStops
    /\ udp' = [udp EXCEPT !.is_sending = FALSE]
    /\ ustop' = [ustop EXCEPT
                   !.pc = IF udp.socket # None THEN "close" ELSE "finish"]
    /\ UNCHANGED <<notUDP, sut, now, usend, wire, ulog>>

\* a stop() that leaves the socket open and set
UDP_stop_close_KeepsSocket ==
    /\ sut = "udp"
    /\ ustop.pc = "close"
    /\ ustop' = [ustop EXCEPT !.pc = "finish"]
    /\ UNCHANGED <<notUDP, sut, now, udp, usend, wire, ulog>>

\* self.socket.close(); self.socket = None
UDP_stop_close ==
    /\ sut = "udp"
    /\ ustop.pc = "close"
    /\ udp' = [udp EXCEPT !.socket = None]
    /\ ustop' = [ustop EXCEPT !.pc = "finish"]
    /\ ulog' = [ulog EXCEPT !.releases = Append(@, "close")]
    /\ UNCHANGED <<notUDP, sut, now, usend, wire>>

\* self.is_initialized = False
UDP_stop_finish ==
    /\ sut = "udp"
    /\ ustop.pc = "finish"
    /\ udp' = [udp EXCEPT !.is_initialized = FALSE]
    /\ ustop' = [ustop EXCEPT !.pc = "idle", !.stops = @ + 1]
    /\ UNCHANGED <<notUDP, sut, now, usend, wire, ulog>>

\* time.time() advances; a call in progress has read the clock already
Tick ==
    /\ sut \in {"udp", "ndi"}
    /\ now < StartTime + MaxTime
    /\ usend.pc = "idle" /\ ustop.pc = "idle"
    /\ now' = now + 1
    /\ UNCHANGED <<sut, httpVars, udpVars, ndiVars, spoutVars, displayVars>>

NextUDP ==
    \/ UDP_send_frame_begin
    \/ UDP_send_frame_sendto
    \/ UDP_stop_begin
    \/ UDP_stop_close
    \/ UDP_stop_finish
    \/ Tick

(***************************************************************************)
(* UDPVideoStreamer.send_frame called from several threads at once          *)
(***************************************************************************)
\* the threads that call send_frame on the one streamer
LockThreads == {1, 2}

\* a thread outside send_frame
ThreadIdle == [pc |-> "idle", frame |-> 0, kind |-> "ok", size |-> 0,
               current_time |-> 0, pending |-> <<>>, i |-> 0]

\* self.lock = threading.Lock(), free (0) or held by a thread, with the
\* threads and the counts of the calls they made
LockIdle == [lock |-> 0, calls |-> 0, bad |-> 0, fails |-> 0,
             thread |-> [t \in LockThreads |-> ThreadIdle]]

\* a lock that every thread can take at any time
LockFree_Always(s) == TRUE

\* with self.lock: the lock can be taken when no thread holds it
LockFree(s) == s.lock = 0

\* the thread leaves send_frame, and the with block with it
LockReturn(s, t) ==
    [s EXCEPT !.thread[t] = ThreadIdle,
              !.lock = IF @ = t THEN 0 ELSE @]

\* send_frame up to the with statement: if not self.is_initialized or not
\* self.socket: return False
Lock_send_frame_enter(t) ==
    /\ sut = "lock"
    /\ usend.thread[t].pc = "idle"
    /\ usend.calls < MaxUDPFrames
    /\ \E kind \in FrameKinds, size \in JpegSizes :
         LET id == usend.calls + 1 IN
         /\ kind # "ok" => usend.bad < MaxBadFrames
         /\ usend' = [usend EXCEPT
              !.calls = id,
              !.bad = IF kind # "ok" THEN @ + 1 ELSE @,
              !.thread[t] = IF ~udp.is_initialized \/ udp.socket = None
                              THEN ThreadIdle
                              ELSE [ThreadIdle EXCEPT !.pc = "lock",
                                       !.frame = id, !.kind = kind,
                                       !.size = size]]
    /\ UNCHANGED <<notUDP, sut, now, udp, ustop, wire, ulog>>

\* with self.lock: the frame-rate test, the conversion, the JPEG encode and
\* _create_packet, up to the call of _send_packet
Lock_send_frame_acquire(t) ==
    /\ sut = "lock"
    /\ usend.thread[t].pc = "lock"
    /\ LockFree(usend)
    /\ LET call == usend.thread[t]
           packet_data == UDP_create_packet(JpegBytes(call.frame, call.size),
                                            udp.frame_count, now)
       IN
       usend' =
         IF now - udp.last_frame_time < FrameInterval
              \/ ~SupportedShape(call.kind) \/ ~EncodeOk(call.kind)
              \/ ~struct_pack_I_ok(udp)
           THEN LockReturn(usend, t)
           ELSE [usend EXCEPT
                   !.lock = t,
                   !.thread[t] = [call EXCEPT
                        !.pc = "sendto", !.current_time = now,
                        !.pending = UDP_send_packet(packet_data,
                                                    udp.frame_count)]]
    /\ UNCHANGED <<notUDP, sut, now, udp, ustop, wire, ulog>>

\* one self.socket.sendto(...) of _send_packet, the lock held; after the last
\* one self.frame_count += 1; self.last_frame_time = current_time; return
\* True.  A sendto that raises ends the call: return False
Lock_send_frame_sendto(t) ==
    /\ sut = "lock"
    /\ usend.thread[t].pc = "sendto"
    /\ LET call == usend.thread[t] IN
       \E raises \in BOOLEAN :
         /\ raises => usend.fails < MaxSendFail
         /\ IF raises
              THEN /\ usend' = [LockReturn(usend, t) EXCEPT !.fails = @ + 1]
                   /\ UNCHANGED <<udp, wire, ulog>>
              ELSE /\ wire' = Append(wire, [bytes |-> call.pending[call.i + 1],
                                            frame |-> call.frame])
                   /\ IF call.i + 1 < Len(call.pending)
                        THEN /\ usend' = [usend EXCEPT !.thread[t].i = @ + 1]
                             /\ UNCHANGED <<udp, ulog>>
                        ELSE /\ udp' = [IncFrameCount(udp) EXCEPT
                                   !.last_frame_time = call.current_time]
                             /\ usend' = LockReturn(usend, t)
                             /\ ulog' = [ulog EXCEPT
                                   !.accepted = Append(@, call.current_time)]
    /\ UNCHANGED <<notUDP, sut, now, ustop>>

\* time.time() advances, whatever the threads are doing
Lock_tick ==
    /\ sut = "lock"
    /\ now < StartTime + MaxTime
    /\ now' = now + 1
    /\ UNCHANGED <<sut, httpVars, udpVars, ndiVars, spoutVars, displayVars>>

NextLock ==
    \/ \E t \in LockThreads : Lock_send_frame_enter(t)
    \/ \E t \in LockThreads : Lock_send_frame_acquire(t)
    \/ \E t \in LockThreads : Lock_send_frame_sendto(t)
    \/ Lock_tick

(***************************************************************************)
(* NDISender.  Calls on it come from one thread; send_frame holds the lock   *)
(* for its whole body.                                                      *)
(***************************************************************************)
\* NDI_METHOD "PyNDI" takes the same branches as "ndi-python" everywhere
NDIMethods == {"ndi-python", "ffmpeg-ndi"}

\* NDISender.__init__ with NDI_AVAILABLE and frame_rate = (fps, 1);
\* ok: ndi.initialize() and ndi.send_create() succeeded (direct), or
\* `ffmpeg -version` ran (ffmpeg)
NDISender_init(method, ok) ==
    [ sender          |-> IF ok /\ method = "ndi-python" THEN "sender" ELSE None,
      is_initialized  |-> ok,
      is_sending      |-> ok,
      last_frame_time |-> 0,
      ffmpeg_process  |-> None ]

NCallsNone == [calls |-> 0, bad |-> 0, fails |-> 0, stops |-> 0]

\* calls made on the backend: frames handed over, ffmpeg processes started and
\* stopped, and the releases
NLogEmpty == [call |-> NoCall, accepted |-> <<>>, frames |-> 0, popen |-> 0,
              releases |-> <<>>]

FreshNDI(method, ok) ==
    /\ NDI_METHOD = method
    /\ ndi = NDISender_init(method, ok)
    /\ ncalls = NCallsNone
    /\ nlog = NLogEmpty

\* the record of an NDISender.send_frame call that took the given path
NCallRecord(id, kind, path, ret, last_after) ==
    [id |-> id, path |-> path, kind |-> kind, size |-> 0,
     current_time |-> now, last |-> ndi.last_frame_time, planned |-> 1,
     written |-> IF path = "sent" THEN 1 ELSE 0,
     last_after |-> last_after, ret |-> ret]

\* a limiter that records the offer time of a failed send as well
last_frame_time_Always(success, current_time, last) == current_time

\* a limiter that records the offer time of a failed send only
last_frame_time_OnFailure(success, current_time, last) ==
    IF success THEN last ELSE current_time

\* send_frame: if success: self.last_frame_time = current_time
last_frame_time_after(success, current_time, last) ==
    IF success THEN current_time ELSE last

\* a send_frame whose _send_frame_ffmpeg starts a process for every frame
NDI_send_frame_call_PopenEachFrame(kind, raises, popen_ok) ==
         LET id == ncalls.calls + 1
             limited == now - ndi.last_frame_time < FrameInterval
             direct == NDI_METHOD = "ndi-python"
             starts == ~direct /\ popen_ok
             process == IF starts THEN "running" ELSE ndi.ffmpeg_process
             reaches_backend ==
                 /\ IF direct THEN ndi.sender # None ELSE process # None
                 /\ SupportedShape(kind)
             success == reaches_backend /\ ~raises
             path == IF ~ndi.is_initialized THEN "uninitialized"
                     ELSE IF limited THEN "rate_limited"
                     ELSE IF success THEN "sent" ELSE "failed"
         IN
         /\ kind = "bad_shape" => ncalls.bad < MaxBadFrames
         /\ kind # "encode_fail"
         /\ raises => ncalls.fails < MaxSendFail
         /\ (raises \/ ~popen_ok) => path \in {"sent", "failed"}
         /\ ~popen_ok => ~direct
         /\ raises => reaches_backend
         /\ ncalls' = [ncalls EXCEPT !.calls = id,
                 !.bad = IF kind = "bad_shape" /\ path = "failed" THEN @ + 1 ELSE @,
                 !.fails = IF raises THEN @ + 1 ELSE @]
         /\ IF path \in {"uninitialized", "rate_limited"}
              THEN /\ ndi' = ndi
                   /\ nlog' = [nlog EXCEPT !.call =
                         NCallRecord(id, kind, path, path = "rate_limited",
                                     ndi.last_frame_time)]
              ELSE LET after == last_frame_time_after(success, now,
                                                      ndi.last_frame_time)
                   IN
                   /\ ndi' = [ndi EXCEPT
                        !.last_frame_time = after,
                        \* a write that raises ends in _stop_ffmpeg_process
                        !.ffmpeg_process =
                            IF ~direct /\ raises THEN None ELSE process]
                   /\ nlog' = [nlog EXCEPT
                        !.call = NCallRecord(id, kind, path, success, after),
                        !.accepted = IF success THEN Append(@, now) ELSE @,
                        !.frames = IF success THEN @ + 1 ELSE @,
                        !.popen = IF starts THEN @ + 1 ELSE @,
                        !.releases = IF ~direct /\ raises
                                       THEN Append(@, "terminate") ELSE @]

\* NDISender.send_frame; raises: the backend call (ndi.send_send_video_v2, or
\* the write to the ffmpeg pipe) raises; popen_ok: subprocess.Popen succeeds
NDI_send_frame_call(kind, raises, popen_ok) ==
         LET id == ncalls.calls + 1
             limited == now - ndi.last_frame_time < FrameInterval
             direct == NDI_METHOD = "ndi-python"
             \* _send_frame_ffmpeg starts the process when none is held
             starts == ~direct /\ ndi.ffmpeg_process = None /\ popen_ok
             process == IF starts THEN "running" ELSE ndi.ffmpeg_process
             reaches_backend ==
                 /\ IF direct THEN ndi.sender # None ELSE process # None
                 /\ SupportedShape(kind)
             success == reaches_backend /\ ~raises
             path == IF ~ndi.is_initialized THEN "uninitialized"
                     ELSE IF limited THEN "rate_limited"
                     ELSE IF success THEN "sent" ELSE "failed"
         IN
         /\ kind = "bad_shape" => ncalls.bad < MaxBadFrames
         /\ kind # "encode_fail"
         /\ raises => ncalls.fails < MaxSendFail
         /\ (raises \/ ~popen_ok) => path \in {"sent", "failed"}
         /\ ~popen_ok => (~direct /\ ndi.ffmpeg_process = None)
         /\ raises => reaches_backend
         /\ ncalls' = [ncalls EXCEPT !.calls = id,
                 !.bad = IF kind = "bad_shape" /\ path = "failed" THEN @ + 1 ELSE @,
                 !.fails = IF raises THEN @ + 1 ELSE @]
         /\ IF path \in {"uninitialized", "rate_limited"}
              THEN /\ ndi' = ndi
                   /\ nlog' = [nlog EXCEPT !.call =
                         NCallRecord(id, kind, path, path = "rate_limited",
                                     ndi.last_frame_time)]
              ELSE LET after == last_frame_time_after(success, now,
                                                      ndi.last_frame_time)
                   IN
                   /\ ndi' = [ndi EXCEPT
                        !.last_frame_time = after,
                        \* a write that raises ends in _stop_ffmpeg_process
                        !.ffmpeg_process =
                            IF ~direct /\ raises THEN None ELSE process]
                   /\ nlog' = [nlog EXCEPT
                        !.call = NCallRecord(id, kind, path, success, after),
                        !.accepted = IF success THEN Append(@, now) ELSE @,
                        !.frames = IF success THEN @ + 1 ELSE @,
                        !.popen = IF starts THEN @ + 1 ELSE @,
                        !.releases = IF ~direct /\ raises
                                       THEN Append(@, "terminate") ELSE @]

\* send_frame called on an NDISender that is driven alone
NDI_send_frame ==
    /\ sut = "ndi"
    /\ ncalls.calls < MaxUDPFrames
    /\ \E kind \in FrameKinds, raises \in BOOLEAN, popen_ok \in BOOLEAN :
         NDI_send_frame_call(kind, raises, popen_ok)
    /\ UNCHANGED <<notNDI, sut, now, NDI_METHOD>>

\* a stop() that leaves is_initialized set
NDI_stop_call_StaysInitialized ==
    /\ ndi' = [ndi EXCEPT !.is_sending = FALSE, !.sender = None,
                          !.ffmpeg_process = None]
    /\ nlog' = nlog
    /\ ncalls' = [ncalls EXCEPT !.stops = @ + 1]

\* NDISender.stop
NDI_stop_call ==
    /\ LET direct == NDI_METHOD = "ndi-python"
           destroys == direct /\ ndi.sender # None
           terminates == ~direct /\ ndi.ffmpeg_process # None
           r1 == IF destroys THEN <<"send_destroy">> ELSE <<>>
           r2 == IF terminates THEN <<"terminate">> ELSE <<>>
           \* if NDI_AVAILABLE and NDI_METHOD in [...]: ndi.destroy()
           r3 == IF direct THEN <<"destroy">> ELSE <<>>
       IN
       /\ ndi' = [ndi EXCEPT !.is_sending = FALSE, !.sender = None,
                             !.ffmpeg_process = None, !.is_initialized = FALSE]
       /\ nlog' = [nlog EXCEPT !.releases = @ \o r1 \o r2 \o r3]
    /\ ncalls' = [ncalls EXCEPT !.stops = @ + 1]

\* stop called on an NDISender that is driven alone
NDI_stop ==
    /\ sut = "ndi"
    /\ ncalls.stops < MaxStops
    /\ NDI_stop_call
    /\ UNCHANGED <<notNDI, sut, now, NDI_METHOD>>

NextNDI ==
    \/ NDI_send_frame
    \/ NDI_stop
    \/ Tick

(***************************************************************************)
(* SpoutSender.  Calls on it come from one thread.                          *)
(***************************************************************************)
\* SpoutSender.__init__ with SPOUT_AVAILABLE; ok: createOpenGL() succeeded;
\* raised: spout.SpoutSender() or setSenderName raised before self.sender was set
SpoutSender_init(ok, raised) ==
    [ sender         |-> IF raised THEN None ELSE "sender",
      is_initialized |-> ok /\ ~raised,
      is_sending     |-> ok /\ ~raised,
      frame_count    |-> 0 ]

SLogEmpty == [call |-> NoCall, frames |-> 0, releases |-> <<>>]

\* no frame is being converted
CodecIdle == [pc |-> "idle"]

FreshSpout(ok, raised) ==
    /\ spout = SpoutSender_init(ok, raised)
    /\ scalls = NCallsNone
    /\ slog = SLogEmpty
    /\ codec = CodecIdle

\* SpoutSender.send_frame; accepted: what sender.sendImage returns;
\* raises: sendImage raises
Spout_send_frame_call(kind, accepted, raises) ==
         LET id == scalls.calls + 1
             reaches_backend ==
                 /\ spout.is_initialized
                 /\ spout.sender # None
                 /\ SupportedShape(kind)
             success == reaches_backend /\ accepted /\ ~raises
             path == IF ~spout.is_initialized \/ spout.sender = None
                       THEN "uninitialized"
                     ELSE IF success THEN "sent" ELSE "failed"
         IN
         /\ kind = "bad_shape" => scalls.bad < MaxBadFrames
         /\ kind # "encode_fail"
         /\ (raises \/ ~accepted) => (reaches_backend /\ scalls.fails < MaxSendFail)
         /\ ~(raises /\ ~accepted)
         /\ scalls' = [scalls EXCEPT !.calls = id,
                 !.bad = IF kind = "bad_shape" /\ path = "failed" THEN @ + 1 ELSE @,
                 !.fails = IF raises \/ ~accepted THEN @ + 1 ELSE @]
         /\ spout' = [spout EXCEPT !.frame_count = IF success THEN @ + 1 ELSE @]
         /\ slog' = [slog EXCEPT
              !.call = [NoCall EXCEPT !.id = id, !.path = path, !.kind = kind,
                                      !.ret = success],
              !.frames = IF success THEN @ + 1 ELSE @]
         /\ UNCHANGED codec

\* send_frame called on a SpoutSender that is driven alone
Spout_send_frame ==
    /\ sut = "spout"
    /\ scalls.calls < MaxUDPFrames
    /\ \E kind \in FrameKinds, accepted \in BOOLEAN, raises \in BOOLEAN :
         Spout_send_frame_call(kind, accepted, raises)
    /\ UNCHANGED <<notSpout, sut, now>>

\* SpoutSender.stop; raises: releaseSender() raises, which leaves self.sender set
Spout_stop_call(raises) ==
         /\ raises => (spout.sender # None /\ scalls.fails < MaxSendFail)
         /\ spout' = [spout EXCEPT !.is_sending = FALSE,
                                   !.sender = IF raises THEN @ ELSE None,
                                   !.is_initialized = FALSE]
         /\ slog' = [slog EXCEPT !.releases =
              IF spout.sender = None THEN @
              ELSE IF raises THEN Append(@, "releaseSender")
              ELSE @ \o <<"releaseSender", "closeOpenGL">>]
         /\ scalls' = [scalls EXCEPT !.stops = @ + 1,
                                     !.fails = IF raises THEN @ + 1 ELSE @]
         /\ UNCHANGED codec

\* stop called on a SpoutSender that is driven alone
Spout_stop ==
    /\ sut = "spout"
    /\ scalls.stops < MaxStops
    /\ \E raises \in BOOLEAN : Spout_stop_call(raises)
    /\ UNCHANGED <<notSpout, sut, now>>

NextSpout ==
    \/ Spout_send_frame
    \/ Spout_stop

(***************************************************************************)
(* The frame conversion of the local sinks: SpoutSender.send_frame and      *)
(* NDISender._send_frame_direct.  An array is a record of its shape         *)
(* (h, w, ch) and its uint8 elements px[row][column][channel].              *)
(***************************************************************************)
\* the flip_mode values of SpoutSender
FlipModes == {"none", "vertical", "horizontal", "both"}

\* the heights and widths of the frames offered; 0: an empty array
FrameDims == 0..2

\* the heights and widths the sinks are configured with
SinkDims == 1..2

\* frame_data.shape[2] of the frames offered
ChannelCounts == {1, 3, 4}

\* the array a caller offers: every element differs from its neighbours
InputFrame(h, w, ch, seed) ==
    [h |-> h, w |-> w, ch |-> ch,
     px |-> [r \in 1..h |-> [c \in 1..w |-> [k \in 1..ch |->
                (seed + 50 * ((r - 1) * w + (c - 1)) + 7 * k) % 256]]]]

\* len(array.tobytes()) of a uint8 array
tobytes_len(buf) == buf.h * buf.w * buf.ch

\* frame_data.copy() names the same buffer
np_copy_SameBuffer(ref) == ref

\* frame_data.copy(): a buffer of its own
np_copy(ref) == ref + 1

\* bgra_frame[:, :, [0, 2]] = bgra_frame[:, :, [2, 0]]
SwapChannels02(buf) ==
    [buf EXCEPT !.px = [r \in 1..buf.h |-> [c \in 1..buf.w |->
        <<buf.px[r][c][3], buf.px[r][c][2], buf.px[r][c][1],
          buf.px[r][c][4]>>]]]

\* np.zeros((h, w, 4)); bgra_frame[:, :, [2, 1, 0]] = frame_data;
\* bgra_frame[:, :, 3] = 255
RGBToBGRA(buf) ==
    [buf EXCEPT !.ch = 4,
                !.px = [r \in 1..buf.h |-> [c \in 1..buf.w |->
        <<buf.px[r][c][3], buf.px[r][c][2], buf.px[r][c][1], 255>>]]]

\* the source index and weight cv2.resize (INTER_LINEAR) gives destination
\* index d (from 0) of an axis resized from n to m elements: the source
\* coordinate is (d + 0.5) * n / m - 0.5, held within the axis; w1 is the
\* weight of the element after i0, over 2 * m
LinearTap(d, n, m) ==
    LET num == (2 * d + 1) * n - m
        den == 2 * m
    IN IF num < 0 THEN [i0 |-> 0, i1 |-> 0, w1 |-> 0]
       ELSE IF num \div den >= n - 1 THEN [i0 |-> n - 1, i1 |-> n - 1, w1 |-> 0]
       ELSE [i0 |-> num \div den, i1 |-> (num \div den) + 1, w1 |-> num % den]

\* cv2.resize that leaves the array as it is
cv2_resize_Keep(buf, width, height) == buf

\* cv2.resize(bgra_frame, (width, height)) of a non-empty array: bilinear
\* interpolation, rounded to the nearest integer
cv2_resize(buf, width, height) ==
    LET dx == 2 * width
        dy == 2 * height
        at(r, c, k) ==
            LET y == LinearTap(r - 1, buf.h, height)
                x == LinearTap(c - 1, buf.w, width)
                p(i, j) == buf.px[i + 1][j + 1][k]
                top == (dx - x.w1) * p(y.i0, x.i0) + x.w1 * p(y.i0, x.i1)
                bot == (dx - x.w1) * p(y.i1, x.i0) + x.w1 * p(y.i1, x.i1)
            IN ((dy - y.w1) * top + y.w1 * bot + (dx * dy) \div 2)
                   \div (dx * dy)
    IN [h |-> height, w |-> width, ch |-> buf.ch,
        px |-> [r \in 1..height |-> [c \in 1..width |->
                   [k \in 1..buf.ch |-> at(r, c, k)]]]]

\* np.flipud
np_flipud(buf) ==
    [buf EXCEPT !.px = [r \in 1..buf.h |-> buf.px[buf.h + 1 - r]]]

\* np.fliplr
np_fliplr(buf) ==
    [buf EXCEPT !.px = [r \in 1..buf.h |->
                          [c \in 1..buf.w |-> buf.px[r][buf.w + 1 - c]]]]

\* the flip_mode test with "vertical" and "horizontal" exchanged
Orient_Exchanged(flip_mode, buf) ==
    IF flip_mode = "vertical" THEN np_fliplr(buf)
    ELSE IF flip_mode = "horizontal" THEN np_flipud(buf)
    ELSE IF flip_mode = "both" THEN np_flipud(np_fliplr(buf))
    ELSE buf

\* "Fix orientation based on flip_mode setting"
Orient(flip_mode, buf) ==
    IF flip_mode = "vertical" THEN np_flipud(buf)
    ELSE IF flip_mode = "horizontal" THEN np_fliplr(buf)
    ELSE IF flip_mode = "both" THEN np_flipud(np_fliplr(buf))
    ELSE buf

\* no array: the value of a name that is not bound yet
NoArray == [h |-> 0, w |-> 0, ch |-> 0, px |-> <<>>]

\* nothing was handed to the backend
NotHanded == [data |-> NoArray, width |-> 0, height |-> 0, stride |-> 0]

\* send_frame is called with an array on an initialised local sink.
\* heap: the buffers, by reference; frame_data and bgra_frame: references;
\* offered: the elements of the caller's array when the call was made
CodecCall(backend, flip_mode, width, height, frame) ==
    [pc |-> "convert", backend |-> backend, flip_mode |-> flip_mode,
     width |-> width, height |-> height,
     heap |-> <<frame>>, frame_data |-> 1, bgra_frame |-> 0,
     offered |-> frame,
     converted |-> NoArray, resized |-> NoArray, flipped |-> NoArray,
     handed |-> NotHanded,
     ret |-> None]

\* the channel conversion
Codec_convert ==
    /\ sut = "codec"
    /\ codec.pc = "convert"
    /\ LET frame == codec.heap[codec.frame_data] IN
       IF frame.ch = 4
         THEN LET ref == np_copy(codec.frame_data)
                  bgra == SwapChannels02(codec.heap[codec.frame_data])
              IN codec' = [codec EXCEPT
                     !.pc = "resize", !.bgra_frame = ref,
                     !.heap = [i \in (DOMAIN codec.heap) \cup {ref} |->
                                 IF i = ref THEN bgra ELSE codec.heap[i]],
                     !.converted = bgra]
       ELSE IF frame.ch = 3
         THEN LET ref == codec.frame_data + 1
                  bgra == RGBToBGRA(frame)
              IN codec' = [codec EXCEPT
                     !.pc = "resize", !.bgra_frame = ref,
                     !.heap = Append(codec.heap, bgra),
                     !.converted = bgra]
         ELSE codec' = [codec EXCEPT !.pc = "returned", !.ret = FALSE]
    /\ UNCHANGED <<notSpout, sut, now, spout, scalls, slog>>

\* "Ensure frame is the correct size"; cv2.resize raises for an empty array
Codec_resize ==
    /\ sut = "codec"
    /\ codec.pc = "resize"
    /\ LET bgra == codec.heap[codec.bgra_frame] IN
       IF <<bgra.h, bgra.w>> = <<codec.height, codec.width>>
         THEN codec' = [codec EXCEPT
                 !.pc = IF codec.backend = "spout" THEN "flip" ELSE "hand",
                 !.resized = bgra]
       ELSE IF bgra.h = 0 \/ bgra.w = 0
         THEN codec' = [codec EXCEPT !.pc = "returned", !.ret = FALSE]
         ELSE LET ref == Len(codec.heap) + 1
                  out == cv2_resize(bgra, codec.width, codec.height)
              IN codec' = [codec EXCEPT
                 !.pc = IF codec.backend = "spout" THEN "flip" ELSE "hand",
                 !.bgra_frame = ref,
                 !.heap = Append(codec.heap, out),
                 !.resized = out]
    /\ UNCHANGED <<notSpout, sut, now, spout, scalls, slog>>

\* SpoutSender.send_frame: the flip, and np.ascontiguousarray
Codec_flip ==
    /\ sut = "codec"
    /\ codec.pc = "flip"
    /\ LET ref == Len(codec.heap) + 1
           out == Orient(codec.flip_mode, codec.heap[codec.bgra_frame])
       IN codec' = [codec EXCEPT !.pc = "hand", !.bgra_frame = ref,
                                 !.heap = Append(codec.heap, out),
                                 !.flipped = out]
    /\ UNCHANGED <<notSpout, sut, now, spout, scalls, slog>>

\* sender.sendImage(bgra_frame, width, height, GL_BGRA_EXT, False, stride), or
\* video_frame.data = bgra_frame and ndi.send_send_video_v2; accepted: what
\* sendImage returns (send_send_video_v2 returns nothing)
Codec_hand ==
    /\ sut = "codec"
    /\ codec.pc = "hand"
    /\ \E accepted \in BOOLEAN :
         /\ codec.backend = "ndi_direct" => accepted
         /\ codec' = [codec EXCEPT
               !.pc = "returned", !.ret = accepted,
               !.handed = [data   |-> codec.heap[codec.bgra_frame],
                           width  |-> codec.width,
                           height |-> codec.height,
                           stride |-> codec.width * 4]]
    /\ UNCHANGED <<notSpout, sut, now, spout, scalls, slog>>

NextCodec ==
    \/ Codec_convert
    \/ Codec_resize
    \/ Codec_flip
    \/ Codec_hand

(***************************************************************************)
(* The sinks as ScrollingNewsDisplay drives them: every call on a sink      *)
(* comes from the main thread and returns before the next one is made, and  *)
(* no client is connected to the HTTP server.                               *)
(***************************************************************************)
\* UDPVideoStreamer.send_frame as one call; fail_at: the number of sendto
\* calls that succeed before one raises
UDP_send_frame_call(kind, size, fail_at) ==
    LET id == usend.calls + 1
        call == [usend EXCEPT !.frame = id, !.calls = id, !.kind = kind,
                              !.size = size, !.current_time = now,
                              !.last = udp.last_frame_time]
        packet_data == UDP_create_packet(JpegBytes(id, size),
                                         udp.frame_count, now)
        pending == UDP_send_packet(packet_data, udp.frame_count)
        planned == [call EXCEPT !.pending = pending]
        written == Min(fail_at, Len(pending))
        early(path, ret) ==
            /\ ulog' = [ulog EXCEPT !.call =
                  CallRecord(call, path, ret, 0, udp.last_frame_time)]
            /\ UNCHANGED <<udp, wire>>
    IN
    /\ kind # "ok" => usend.bad < MaxBadFrames
    /\ fail_at < Len(pending) => usend.fails < MaxSendFail
    /\ fail_at <= Len(pending)
    /\ IF ~udp.is_initialized \/ udp.socket = None
         THEN /\ usend' = USendDone(call)
              /\ early("uninitialized", FALSE)
         ELSE IF now - udp.last_frame_time < FrameInterval
         THEN /\ usend' = USendDone(call)
              /\ early("rate_limited", TRUE)
         ELSE IF ~SupportedShape(kind) \/ ~EncodeOk(kind)
         THEN /\ usend' = USendDone([call EXCEPT !.bad = @ + 1])
              /\ early("convert", FALSE)
         ELSE IF ~struct_pack_I_ok(udp)
         THEN /\ usend' = USendDone(call)
              /\ early("pack_raised", FALSE)
         ELSE /\ wire' = wire \o [k \in 1..written |->
                                    [bytes |-> pending[k], frame |-> id]]
              /\ IF written < Len(pending)
                   THEN /\ usend' = USendDone([call EXCEPT !.fails = @ + 1])
                        /\ ulog' = [ulog EXCEPT !.call =
                              CallRecord(planned, "sendto_raised", FALSE,
                                         written, udp.last_frame_time)]
                        /\ UNCHANGED udp
                   ELSE /\ udp' = [IncFrameCount(udp) EXCEPT
                                              !.last_frame_time = now]
                        /\ usend' = USendDone(call)
                        /\ ulog' = [ulog EXCEPT
                              !.call = CallRecord(planned, "sent", TRUE,
                                                  written, now),
                              !.accepted = Append(@, now)]
    /\ UNCHANGED ustop

\* UDPVideoStreamer.stop as one call
UDP_stop_call ==
    /\ udp' = [udp EXCEPT !.is_sending = FALSE, !.socket = None,
                          !.is_initialized = FALSE]
    /\ ulog' = [ulog EXCEPT !.releases =
                   IF udp.socket # None THEN Append(@, "close") ELSE @]
    /\ ustop' = [ustop EXCEPT !.stops = @ + 1]
    /\ UNCHANGED <<usend, wire>>

\* HTTPVideoStreamer.send_frame as one call: no handler runs between the
\* queue.Full and the second put_nowait
HTTP_send_frame_call(kind) ==
    LET id == hsend.calls + 1
        full == QueueFull(frame_queue)
        room == IF full THEN QueueGet(frame_queue) ELSE frame_queue
    IN
    /\ kind # "ok" => hsend.bad < MaxBadFrames
    /\ IF ~http.is_initialized
         THEN /\ hsend' = [hsend EXCEPT !.calls = id]
              /\ hlog' = HReturn(hlog, id, FALSE, FALSE)
              /\ UNCHANGED <<http, frame_queue>>
         ELSE IF ~SupportedShape(kind) \/ ~EncodeOk(kind)
         THEN /\ hsend' = [hsend EXCEPT !.calls = id, !.bad = @ + 1]
              /\ hlog' = HReturn(hlog, id, FALSE, FALSE)
              /\ UNCHANGED <<http, frame_queue>>
         ELSE /\ frame_queue' = QueuePut(room, id)
              /\ http' = [http EXCEPT !.frame_count = @ + 1]
              /\ hsend' = [hsend EXCEPT !.calls = id]
              /\ hlog' = HReturn(
                    [hlog EXCEPT
                       !.enqueued = Append(@, id),
                       !.evicted = IF full THEN Append(@, Head(frame_queue))
                                   ELSE @],
                    id, TRUE, TRUE)
    /\ UNCHANGED <<hhandler, hstop, conn>>

\* HTTPVideoStreamer.stop as one call: shutdown() ends serve_forever, then
\* server_close() and join()
HTTP_stop_call ==
    /\ http' = [http EXCEPT
          !.is_sending = FALSE,
          !.server = IF @ # None THEN "closed" ELSE @,
          !.server_thread = IF http.server # None /\ @ # None
                              THEN "exited" ELSE @,
          !.is_initialized = FALSE]
    /\ hlog' = IF http.server # None
                 THEN HRelease(HRelease(HRelease(hlog, "shutdown"),
                                        "server_close"), "join")
                 ELSE hlog
    /\ hstop' = [hstop EXCEPT !.stops = @ + 1]
    /\ UNCHANGED <<frame_queue, hsend, hhandler, conn>>

\* get_connection_count of each sink
UDP_get_connection_count ==
    IF udp.is_initialized /\ udp.is_sending THEN 1 ELSE 0

HTTP_get_connection_count ==
    IF http.is_initialized /\ http.is_sending THEN 1 ELSE 0

Spout_get_connection_count ==
    IF spout.is_initialized /\ spout.is_sending THEN 1 ELSE 0

\* is_connected of the four sinks
UDP_is_connected == udp.is_initialized /\ udp.is_sending

HTTP_is_connected == http.is_initialized /\ http.is_sending

Spout_is_connected == spout.is_initialized /\ spout.is_sending

NDI_is_connected(receivers) ==
    IF ~ndi.is_initialized THEN FALSE
    ELSE IF NDI_METHOD = "ndi-python" /\ ndi.sender # None THEN receivers > 0
    ELSE IF NDI_METHOD = "ffmpeg-ndi" THEN ndi.ffmpeg_process # None
    ELSE FALSE

\* receivers: what ndi.send_get_no_connections returns
NDI_get_connection_count(receivers) ==
    IF ~ndi.is_initialized THEN 0
    ELSE IF NDI_METHOD = "ndi-python" /\ ndi.sender # None THEN receivers
    ELSE IF NDI_METHOD = "ffmpeg-ndi"
      THEN (IF ndi.ffmpeg_process # None THEN 1 ELSE 0)
    ELSE 0

(***************************************************************************)
(* ScrollingNewsDisplay.  __init__ is three steps, one per sender class;    *)
(* the __del__ of a sender object the display lets go of is not modelled.   *)
(***************************************************************************)
\* self.syphon_update_interval
syphon_update_interval == 4

\* the values of streaming_settings['fallback_method'] considered
FallbackMethods == {"http", "udp", "rtmp"}

\* streaming_settings.get('enabled', True) and is_spout_available()
ShouldTrySpout(d, available) == d.enabled /\ available

\* an NDI attempt made whether or not Spout initialised
ShouldTryNDI_IgnoringSpout(d, available) == d.enabled /\ available

\* if not self.spout_enabled and is_ndi_available():
ShouldTryNDI(d, available) == d.enabled /\ ~d.spout_enabled /\ available

\* a fallback attempt made whether or not Spout or NDI initialised
ShouldTrySimple_Always(d) == d.enabled

\* if not self.spout_enabled and not self.ndi_enabled:
ShouldTrySimple(d) == d.enabled /\ ~d.spout_enabled /\ ~d.ndi_enabled

\* a factory that builds the HTTP streamer for every method
create_simple_streamer_AlwaysHTTP(method, raised) ==
    IF raised THEN None ELSE "http"

\* create_simple_streamer: the class it constructs, None for an unknown method
\* or a constructor that raised
create_simple_streamer(method, raised) ==
    IF raised THEN None
    ELSE IF method = "http" THEN "http"
    ELSE IF method = "udp" THEN "udp"
    ELSE None

\* a streamer kept although its is_initialized is False
SimpleStreamerUsable_Uninitialized(streamer, is_initialized) == streamer # None

\* if self.simple_streamer and self.simple_streamer.is_initialized:
SimpleStreamerUsable(streamer, is_initialized) ==
    streamer # None /\ is_initialized

\* the display before the streaming set-up of __init__
ScrollingNewsDisplay_init(enabled, fallback_method) ==
    [ pc                    |-> "init_spout",
      enabled               |-> enabled,
      fallback_method       |-> fallback_method,
      spout_sender          |-> None,
      spout_enabled         |-> FALSE,
      ndi_sender            |-> None,
      ndi_enabled           |-> FALSE,
      simple_streamer       |-> None,
      streaming_enabled     |-> FALSE,
      syphon_update_counter |-> 0,
      running               |-> TRUE,
      ticks                 |-> 0 ]

\* no display is constructed
AbsentDisplayRecord ==
    [ScrollingNewsDisplay_init(FALSE, "http") EXCEPT !.pc = "absent",
                                                     !.running = FALSE]

DLogEmpty == [constructed |-> <<>>, offered |-> <<>>, updates |-> 0]

\* a sender class was instantiated; ok: its is_initialized afterwards
Constructed(log, sink, ok) ==
    [log EXCEPT !.constructed = Append(@, [sink |-> sink, ok |-> ok])]

\* __init__: "Try Spout first"; available: is_spout_available()
Display_init_spout ==
    /\ sut = "display"
    /\ display.pc = "init_spout"
    /\ \E available \in BOOLEAN, ok \in BOOLEAN, raised \in BOOLEAN :
         /\ raised => ~ok
         /\ IF ShouldTrySpout(display, available)
              THEN LET sender == SpoutSender_init(ok, raised) IN
                   /\ spout' = sender
                   /\ display' = [display EXCEPT
                        !.pc = "init_ndi",
                        !.spout_sender = IF sender.is_initialized
                                           THEN "spout" ELSE None,
                        !.spout_enabled = sender.is_initialized,
                        !.streaming_enabled = sender.is_initialized]
                   /\ dlog' = Constructed(dlog, "spout", sender.is_initialized)
              ELSE /\ ok /\ ~raised
                   /\ display' = [display EXCEPT !.pc = "init_ndi"]
                   /\ UNCHANGED <<spout, dlog>>
    /\ UNCHANGED <<sut, now, httpVars, udpVars, ndiVars, scalls, slog, codec,
                   rcall, newsVars>>

\* __init__: "If Spout failed, try NDI as backup"; raised: NDISender(...) raises
Display_init_ndi ==
    /\ sut = "display"
    /\ display.pc = "init_ndi"
    /\ \E ok \in BOOLEAN, raised \in BOOLEAN :
         /\ raised => ~ok
         /\ IF ShouldTryNDI(display, NDI_METHOD # None)
              THEN LET sender == NDISender_init(NDI_METHOD, ok) IN
                   /\ ndi' = IF raised THEN ndi ELSE sender
                   /\ display' = [display EXCEPT
                        !.pc = "init_simple",
                        !.ndi_sender = IF ok THEN "ndi" ELSE None,
                        !.ndi_enabled = ok,
                        !.streaming_enabled = IF ok THEN TRUE ELSE @]
                   /\ dlog' = Constructed(dlog, "ndi", ok)
              ELSE /\ ok /\ ~raised
                   /\ display' = [display EXCEPT !.pc = "init_simple"]
                   /\ UNCHANGED <<ndi, dlog>>
    /\ UNCHANGED <<sut, now, rcall, newsVars, httpVars, udpVars, spoutVars,
                   NDI_METHOD, ncalls,
                   nlog>>

\* __init__: "If both Spout and NDI failed, try simple streamer as fallback";
\* ok: the socket or the HTTP server could be set up; raised: the constructor
\* raised inside create_simple_streamer
Display_init_simple ==
    /\ sut = "display"
    /\ display.pc = "init_simple"
    /\ \E ok \in BOOLEAN, raised \in BOOLEAN :
         /\ raised => ~ok
         /\ IF ShouldTrySimple(display)
              THEN LET streamer == create_simple_streamer(
                                       display.fallback_method, raised)
                       usable == SimpleStreamerUsable(streamer, ok)
                   IN
                   /\ streamer = None => (~ok /\ (raised <=>
                          display.fallback_method \in {"http", "udp"}))
                   /\ http' = IF streamer = "http"
                                THEN HTTPVideoStreamer_init(ok) ELSE http
                   /\ udp' = IF streamer = "udp"
                               THEN UDPVideoStreamer_init(ok) ELSE udp
                   /\ display' = [display EXCEPT
                        !.pc = "running",
                        !.simple_streamer = IF usable THEN streamer ELSE None,
                        !.streaming_enabled = IF usable THEN TRUE ELSE @]
                   /\ dlog' = IF display.fallback_method \in {"http", "udp"}
                                THEN Constructed(dlog, display.fallback_method,
                                                 ok)
                                ELSE dlog
              ELSE /\ ok /\ ~raised
                   /\ display' = [display EXCEPT !.pc = "running"]
                   /\ UNCHANGED <<http, udp, dlog>>
    /\ UNCHANGED <<sut, now, rcall, newsVars, conn, frame_queue, hsend, hhandler,
                   hstop,
                   hlog, usend,
                   ustop, wire, ulog, ndiVars, spoutVars>>

\* a dispatch that hands every sender a frame on every tick
DispatchTarget_EveryTick(d, should_update_syphon) ==
    IF ~d.streaming_enabled THEN None
    ELSE IF d.spout_enabled /\ d.spout_sender # None THEN d.spout_sender
    ELSE IF d.ndi_enabled /\ d.ndi_sender # None THEN d.ndi_sender
    ELSE IF d.simple_streamer # None THEN d.simple_streamer
    ELSE None

\* update(): the sender the frame of this tick is handed to, or None
DispatchTarget(d, should_update_syphon) ==
    IF ~d.streaming_enabled THEN None
    ELSE IF d.spout_enabled /\ d.spout_sender # None THEN d.spout_sender
    ELSE IF d.ndi_enabled /\ d.ndi_sender # None /\ should_update_syphon
      THEN d.ndi_sender
    ELSE IF d.simple_streamer # None /\ should_update_syphon
      THEN d.simple_streamer
    ELSE None

\* send_pygame_surface of the target: the surface converts to a frame of a
\* supported shape, which goes to send_frame
SinkSend(target) ==
    /\ target = "spout" =>
         \E accepted \in BOOLEAN, raises \in BOOLEAN :
            Spout_send_frame_call("ok", accepted, raises)
    /\ target # "spout" => UNCHANGED spoutVars
    /\ target = "ndi" =>
         /\ \E raises \in BOOLEAN, popen_ok \in BOOLEAN :
              NDI_send_frame_call("ok", raises, popen_ok)
         /\ UNCHANGED NDI_METHOD
    /\ target # "ndi" => UNCHANGED ndiVars
    /\ target = "udp" =>
         \E kind \in {"ok", "encode_fail"}, size \in JpegSizes,
            fail_at \in 0..(MaxChunks + 1) :
            UDP_send_frame_call(kind, size, fail_at)
    /\ target # "udp" => UNCHANGED udpVars
    /\ target = "http" =>
         \E kind \in {"ok", "encode_fail"} : HTTP_send_frame_call(kind)
    /\ target # "http" => UNCHANGED httpVars

\* an update() that turns streaming off once the frame of the tick was handed
\* to a sender
Display_update_Reselect ==
    /\ sut = "display"
    /\ display.pc = "running"
    /\ display.ticks < MaxTicks
    /\ LET counter == display.syphon_update_counter + 1
           should_update_syphon == counter >= syphon_update_interval
           target == DispatchTarget(display, should_update_syphon)
       IN
       /\ display' = [display EXCEPT
            !.syphon_update_counter = IF should_update_syphon THEN 0
                                      ELSE counter,
            !.streaming_enabled = IF target # None THEN FALSE ELSE @,
            !.ticks = @ + 1]
       /\ SinkSend(target)
       /\ dlog' = [dlog EXCEPT
            !.offered = IF target # None THEN Append(@, target) ELSE @,
            !.updates = @ + 1]
    /\ now' = now + 1
    /\ UNCHANGED <<sut, rcall, newsVars>>

\* update(): one pass of the main loop, one tick of the clock later
Display_update ==
    /\ sut = "display"
    /\ display.pc = "running"
    /\ display.ticks < MaxTicks
    /\ LET counter == display.syphon_update_counter + 1
           should_update_syphon == counter >= syphon_update_interval
           target == DispatchTarget(display, should_update_syphon)
       IN
       /\ display' = [display EXCEPT
            !.syphon_update_counter = IF should_update_syphon THEN 0
                                      ELSE counter,
            !.ticks = @ + 1]
       /\ SinkSend(target)
       /\ dlog' = [dlog EXCEPT
            !.offered = IF target # None THEN Append(@, target) ELSE @,
            !.updates = @ + 1]
    /\ now' = now + 1
    /\ UNCHANGED <<sut, rcall, newsVars>>

\* close(): stop() of every sender the display holds
Display_close ==
    /\ sut = "display"
    /\ display.pc = "running"
    /\ display' = [display EXCEPT !.pc = "closed", !.running = FALSE]
    /\ IF display.spout_enabled /\ display.spout_sender # None
         THEN \E raises \in BOOLEAN : Spout_stop_call(raises)
         ELSE UNCHANGED spoutVars
    /\ IF display.ndi_enabled /\ display.ndi_sender # None
         THEN NDI_stop_call /\ UNCHANGED NDI_METHOD
         ELSE UNCHANGED ndiVars
    /\ IF display.simple_streamer = "udp"
         THEN UDP_stop_call ELSE UNCHANGED udpVars
    /\ IF display.simple_streamer = "http"
         THEN HTTP_stop_call ELSE UNCHANGED httpVars
    /\ UNCHANGED <<sut, now, dlog, rcall, newsVars>>

NextDisplay ==
    \/ Display_init_spout
    \/ Display_init_ndi
    \/ Display_init_simple
    \/ Display_update
    \/ Display_close

(***************************************************************************)
(* news_monitor: one monitor_feed thread per feed calls show_news, the main  *)
(* thread calls update()                                                    *)
(***************************************************************************)
\* the monitor_feed threads, one per configured feed
FeedThreads == {1, 2}

\* feed_config.get('name', 'News') of the feeds
FeedNames == {"bbc", "BBC", "cnn"}

\* entry.get('title', 'No title') of the entries the feeds deliver
Titles == {"t1", "t2"}

\* the entries one monitor_feed thread receives in one run
MaxEntries == 2

\* source.upper()
str_upper(name) == IF name \in {"bbc", "BBC"} THEN "BBC" ELSE "CNN"

\* f"{source.upper()}: {title}"
Headline(name, title) == [source |-> str_upper(name), title |-> title]

\* self.current_news = None
NoNews == [source |-> "", title |-> ""]

\* a monitor_feed thread waiting for the next entry of its feed
FeedThread(name) ==
    [pc |-> "idle", name |-> name, text |-> NoNews, entries |-> 0]

\* the display of news_monitor and its threads: running, current_news and
\* current_scrolling_index are attributes of the display
NewsMonitor(names) ==
    [running |-> TRUE, current_news |-> NoNews, current_scrolling_index |-> 0,
     thread |-> [t \in FeedThreads |-> FeedThread(names[t])]]

NoMonitors ==
    [NewsMonitor([t \in FeedThreads |-> "cnn"]) EXCEPT !.running = FALSE]

\* text in self.scrolling_queue
TextInQueue(q, text) == \E k \in 1..Len(q) : q[k] = text

\* monitor_feed: the feed yields an entry; if not display.is_running(): break;
\* otherwise show_news is called with the headline
Monitor_entry(t) ==
    /\ sut = "news"
    /\ monitor.thread[t].pc = "idle"
    /\ monitor.thread[t].entries < MaxEntries
    /\ \E title \in Titles :
         monitor' = [monitor EXCEPT !.thread[t] =
            IF ~monitor.running
              THEN [@ EXCEPT !.pc = "exited"]
              ELSE [@ EXCEPT !.pc = "show_news", !.entries = @ + 1,
                             !.text = Headline(monitor.thread[t].name,
                                               title)]]
    /\ UNCHANGED <<sut, now, httpVars, udpVars, ndiVars, spoutVars, display,
                   dlog, rcall, scrolling_queue>>

\* show_news: if text not in self.scrolling_queue:
Monitor_show_news_test(t) ==
    /\ sut = "news"
    /\ monitor.thread[t].pc = "show_news"
    /\ monitor' = [monitor EXCEPT !.thread[t].pc =
          IF TextInQueue(scrolling_queue, monitor.thread[t].text)
            THEN "idle" ELSE "append"]
    /\ UNCHANGED <<sut, now, httpVars, udpVars, ndiVars, spoutVars, display,
                   dlog, rcall, scrolling_queue>>

\* show_news: self.scrolling_queue.append(text)
Monitor_show_news_append(t) ==
    /\ sut = "news"
    /\ monitor.thread[t].pc = "append"
    /\ scrolling_queue' = Append(scrolling_queue, monitor.thread[t].text)
    /\ monitor' = [monitor EXCEPT !.thread[t].pc = "idle"]
    /\ UNCHANGED <<sut, now, httpVars, udpVars, ndiVars, spoutVars, display,
                   dlog, rcall>>

\* update() on the main thread: the ticker takes the next item of
\* scrolling_queue when none is scrolling; scrolled_off: the item has left the
\* screen, and the index moves on
News_update ==
    /\ sut = "news"
    /\ monitor.running
    /\ \E scrolled_off \in BOOLEAN :
         LET idx == monitor.current_scrolling_index
             restart == idx >= Len(scrolling_queue)
             news == IF monitor.current_news # NoNews
                       THEN monitor.current_news
                     ELSE IF restart THEN scrolling_queue[1]
                     ELSE scrolling_queue[idx + 1]
             index == IF monitor.current_news = NoNews /\ restart
                        THEN 0 ELSE idx
         IN
         /\ scrolling_queue # <<>>
         /\ monitor' = [monitor EXCEPT
              !.current_news = IF scrolled_off THEN NoNews ELSE news,
              !.current_scrolling_index =
                  IF ~scrolled_off THEN index
                  ELSE IF index + 1 >= Len(scrolling_queue) THEN 0
                  ELSE index + 1]
    /\ UNCHANGED <<sut, now, httpVars, udpVars, ndiVars, spoutVars, display,
                   dlog, rcall, scrolling_queue>>

\* update() receives pygame.QUIT, or close(): self.running = False
News_quit ==
    /\ sut = "news"
    /\ monitor.running
    /\ monitor' = [monitor EXCEPT !.running = FALSE]
    /\ UNCHANGED <<sut, now, httpVars, udpVars, ndiVars, spoutVars, display,
                   dlog, rcall, scrolling_queue>>

NextNews ==
    \/ \E t \in FeedThreads : Monitor_entry(t)
    \/ \E t \in FeedThreads : Monitor_show_news_test(t)
    \/ \E t \in FeedThreads : Monitor_show_news_append(t)
    \/ News_update
    \/ News_quit

(***************************************************************************)
(* Specifications: one object is constructed, then driven                   *)
(***************************************************************************)
(***************************************************************************)
(* StreamHandler: one GET request, answered byte by byte                    *)
(***************************************************************************)
\* the request paths clients send
Paths == {"/", "/stream.mjpg", "/stream.mjpg/", "/index.html", "/?a=1"}

\* len() of the JPEG data of a frame
PartSizes == {1, 9, 10}

\* b'\\r\\n--frame\\r\\n': the source escapes each backslash, so the literal
\* holds the characters \ r \ n and no CR or LF
BoundaryPiece ==
    <<92, 114, 92, 110, 45, 45, 102, 114, 97, 109, 101, 92, 114, 92, 110>>

\* b'Content-Type: image/jpeg\\r\\n'
ContentTypePiece ==
    <<67, 111, 110, 116, 101, 110, 116, 45, 84, 121, 112, 101, 58, 32, 105,
      109, 97, 103, 101, 47, 106, 112, 101, 103, 92, 114, 92, 110>>

\* 'Content-Length: '
ContentLengthName ==
    <<67, 111, 110, 116, 101, 110, 116, 45, 76, 101, 110, 103, 116, 104,
      58, 32>>

\* '\\r\\n\\r\\n' inside the f-string
ContentLengthEnd ==
    <<92, 114, 92, 110, 92, 114, 92, 110>>

\* b'\\r\\n'
TrailerPiece ==
    <<92, 114, 92, 110>>

\* str(n).encode() for n >= 0
RECURSIVE Decimal(_)
Decimal(n) ==
    IF n < 10 THEN <<48 + n>> ELSE Append(Decimal(n \div 10), 48 + (n % 10))

\* f'Content-Length: {len(frame_data)}\\r\\n\\r\\n'.encode()
ContentLengthPiece(n) == ContentLengthName \o Decimal(n) \o ContentLengthEnd

\* the bytes of the JPEG data of frame id, n bytes long; JPEG data holds any
\* byte value, CR, LF and '-' included
JpegData(id, n) ==
    LET some == <<255, 216, 13, 10, 45, 45, 92, 255, 217>>
    IN [i \in 1..n |-> some[((id + i) % Len(some)) + 1]]

\* the arguments of the five wfile.write calls for frame_data
PartPieces(frame_data) ==
    <<BoundaryPiece, ContentTypePiece, ContentLengthPiece(Len(frame_data)),
      frame_data, TrailerPiece>>

\* the bytes on wfile after the first k of the writes
RECURSIVE Written(_, _)
Written(pieces, k) ==
    IF k = 0 THEN <<>> ELSE Written(pieces, k - 1) \o pieces[k]

\* do_GET with a path that matches by prefix
Route_Prefix(path) ==
    IF path \in {"/stream.mjpg", "/stream.mjpg/"} THEN "send_mjpeg_stream"
    ELSE IF path \in {"/", "/?a=1"} THEN "send_index_page"
    ELSE "send_error"

\* do_GET: self.path == '/stream.mjpg', self.path == '/', else
Route(path) ==
    IF path = "/stream.mjpg" THEN "send_mjpeg_stream"
    ELSE IF path = "/" THEN "send_index_page"
    ELSE "send_error"

\* a client sends GET path; serve_forever accepts it and makes a StreamHandler
StreamHandler_request ==
    /\ sut = "get"
    /\ conn.pc \in {"idle", "done"}
    /\ http.server = "serving"
    /\ conn.requests < MaxRequests
    /\ \E path \in Paths :
         conn' = [ConnIdle EXCEPT !.pc = "do_GET", !.path = path,
                                  !.requests = conn.requests + 1,
                                  !.jpeg_len = conn.jpeg_len]
    /\ UNCHANGED <<notHTTP, sut, now, http, frame_queue, hsend, hhandler,
                   hstop, hlog>>

\* do_GET, up to the loop of send_mjpeg_stream: send_response, send_header,
\* end_headers; send_index_page writes the page; send_error(404) writes the
\* error page of BaseHTTPRequestHandler
StreamHandler_do_GET ==
    /\ sut = "get"
    /\ conn.pc = "do_GET"
    /\ conn' =
         IF Route(conn.path) = "send_mjpeg_stream"
           THEN [conn EXCEPT
                   !.pc = "loop", !.status = 200,
                   !.headers = <<
                      <<"Content-Type",
                        "multipart/x-mixed-replace; boundary=frame">>,
                      <<"Cache-Control", "no-cache">> >>,
                   !.body = "parts"]
         ELSE IF Route(conn.path) = "send_index_page"
           THEN [conn EXCEPT
                   !.pc = "done", !.status = 200,
                   !.headers = << <<"Content-Type", "text/html">> >>,
                   !.body = "html"]
           ELSE [conn EXCEPT
                   !.pc = "done", !.status = 404,
                   !.headers = <<
                      <<"Content-Type", "text/html;charset=utf-8">>,
                      <<"Connection", "close">> >>,
                   !.body = "error"]
    /\ UNCHANGED <<notHTTP, sut, now, http, frame_queue, hsend, hhandler,
                   hstop, hlog>>

\* while self.streamer.is_sending:
StreamHandler_loop ==
    /\ sut = "get"
    /\ conn.pc = "loop"
    /\ conn' = [conn EXCEPT !.pc = IF http.is_sending THEN "get" ELSE "done"]
    /\ UNCHANGED <<notHTTP, sut, now, http, frame_queue, hsend, hhandler,
                   hstop, hlog>>

\* frame_data = self.streamer.frame_queue.get(timeout=1.0); on queue.Empty: continue
StreamHandler_get ==
    /\ sut = "get"
    /\ conn.pc = "get"
    /\ IF frame_queue = <<>>
         THEN /\ conn' = [conn EXCEPT !.pc = "loop", !.gets = TRUE]
              /\ UNCHANGED <<frame_queue, hlog>>
         ELSE /\ frame_queue' = QueueGet(frame_queue)
              /\ conn' = [conn EXCEPT !.pc = "write", !.gets = TRUE,
                                      !.frame = Head(frame_queue)]
              /\ hlog' = [hlog EXCEPT !.dequeued = Append(@, Head(frame_queue))]
    /\ UNCHANGED <<notHTTP, sut, now, http, hsend, hhandler, hstop>>

\* the five wfile.write calls; a write that raises (the client is gone) ends
\* the loop with the earlier writes of the part on wfile
StreamHandler_write ==
    /\ sut = "get"
    /\ conn.pc = "write"
    /\ \E k \in 0..5 :
         LET frame_data == JpegData(conn.frame, conn.jpeg_len[conn.frame])
         IN conn' = [conn EXCEPT
                !.pc = IF k = 5 THEN "loop" ELSE "done",
                !.frame = 0,
                !.parts = Append(@, [frame    |-> conn.frame,
                                     bytes    |-> Written(PartPieces(frame_data), k),
                                     complete |-> k = 5])]
    /\ UNCHANGED <<notHTTP, sut, now, http, frame_queue, hsend, hhandler,
                   hstop, hlog>>

\* the owner of the sink sends a frame while a handler may be running
StreamHandler_owner_send_frame ==
    /\ sut = "get"
    /\ hsend.calls < MaxGetFrames
    /\ HTTP_send_frame_call("ok")
    /\ UNCHANGED <<notHTTP, sut, now>>

\* the owner of the sink stops it; the handler sees is_sending False
StreamHandler_owner_stop ==
    /\ sut = "get"
    /\ hstop.stops < 1
    /\ conn.pc \in {"idle", "done", "loop", "get"}
    /\ HTTP_stop_call
    /\ UNCHANGED <<notHTTP, sut, now>>

NextGET ==
    \/ StreamHandler_request
    \/ StreamHandler_do_GET
    \/ StreamHandler_loop
    \/ StreamHandler_get
    \/ StreamHandler_write
    \/ StreamHandler_owner_send_frame
    \/ StreamHandler_owner_stop

(***************************************************************************)
(* Exceptions.  A call ends by returning a value or by raising; the         *)
(* try/except blocks of send_frame, send_pygame_surface and update() decide *)
(* what the caller sees of an exception raised below them.                  *)
(***************************************************************************)
\* how a call ends
Returned(value) == [kind |-> "return", value |-> value]

Raised == [kind |-> "raise", value |-> FALSE]

\* the sinks that have send_frame and send_pygame_surface
SinkKinds == {"udp", "http", "spout", "ndi_direct", "ndi_ffmpeg"}

\* uninitialised: the constructor failed; stopped: stop() has returned;
\* stopping: stop() runs while the call is past its first test
\* limited: active, and less than a frame interval after the last frame sent
SinkStates == {"uninitialised", "active", "limited", "stopping", "stopped"}

\* the sinks whose send_frame has a frame rate limiter
RateLimitedSinks == {"udp", "ndi_direct", "ndi_ffmpeg"}

\* where an exception is raised during the call: nowhere; in the conversion
\* of the pygame surface; in the conversion of the frame (frame_data is no
\* array, cv2.resize or cv2.imencode raises); in the backend (sendto,
\* put_nowait, sendImage, send_send_video_v2, stdin.write)
FaultPoints == {"none", "surface", "frame", "backend"}

\* the methods a caller calls
EntryPoints == {"send_frame", "send_pygame_surface", "update"}

\* no call is being made
NoSinkCall == [pc |-> "idle"]

\* a try block without its except clause
try_except_Reraise(result) == result

\* try: ... except Exception as e: print(...); return False
try_except(result) ==
    IF result.kind = "raise" THEN Returned(FALSE) ELSE result

\* the body of send_frame inside its try block; accepted: what the body
\* returns when nothing raises.  A sink that stop() is taking apart raises
\* in its backend (the socket is closed or None, the sender released)
send_frame_body(sink, state, fault, accepted) ==
    IF state = "limited" /\ sink \in RateLimitedSinks
      THEN Returned(TRUE)
    ELSE IF fault \in {"frame", "backend"} \/ state = "stopping"
      THEN Raised
      ELSE Returned(accepted)

\* the conversions send_frame makes of frame_data, in order, up to the
\* statement that raises: the limiter test of the rate-limited sinks comes
\* first in the try block; fault "frame" is cv2.resize raising
send_frame_work(sink, state, fault) ==
    IF state \in {"uninitialised", "stopped"} THEN <<>>
    ELSE IF state = "limited" /\ sink \in RateLimitedSinks THEN <<>>
    ELSE IF fault = "frame" THEN <<"channels">>
    ELSE IF sink \in {"udp", "http"} THEN <<"channels", "resize", "imencode">>
    ELSE IF sink = "spout" THEN <<"channels", "resize", "flip">>
    ELSE <<"channels", "resize">>

\* the conversions send_pygame_surface makes before it calls send_frame:
\* surface.convert().get_view('3') copied into an array and transposed, and
\* in NDISender the RGBA array built of it and the alpha view; SpoutSender:
\* convert_alpha() and pygame.image.tostring(..., 'RGBA')
surface_work(sink) ==
    IF sink \in {"ndi_direct", "ndi_ffmpeg"}
      THEN <<"surface_rgb", "transpose", "channels_rgba">>
    ELSE IF sink = "spout" THEN <<"surface_rgba">>
    ELSE <<"surface_rgb", "transpose">>

\* the conversions of one send_pygame_surface call
send_pygame_surface_work(sink, state, fault) ==
    IF sink \in {"spout", "ndi_direct", "ndi_ffmpeg"}
       /\ state \in {"uninitialised", "stopped"}
      THEN <<>>
    ELSE IF fault = "surface" THEN <<>>
    ELSE surface_work(sink) \o send_frame_work(sink, state, fault)

\* send_frame of the five sinks: the is_initialized test, then the try block;
\* NDISender.send_frame calls _send_frame_direct or _send_frame_ffmpeg inside
\* its try block, and each of them has a try block of its own
send_frame_result(sink, state, fault, accepted) ==
    IF state \in {"uninitialised", "stopped"} THEN Returned(FALSE)
    ELSE IF sink \in {"ndi_direct", "ndi_ffmpeg"}
      THEN try_except(try_except(send_frame_body(sink, state, fault, accepted)))
      ELSE try_except(send_frame_body(sink, state, fault, accepted))

\* send_pygame_surface: SpoutSender and NDISender test is_initialized first;
\* the surface conversion and the send_frame call are inside the try block
send_pygame_surface_result(sink, state, fault, accepted) ==
    IF sink \in {"spout", "ndi_direct", "ndi_ffmpeg"}
       /\ state \in {"uninitialised", "stopped"}
      THEN Returned(FALSE)
      ELSE try_except(IF fault = "surface" THEN Raised
                      ELSE send_frame_result(sink, state, fault, accepted))

\* update(): the dispatch is inside try: ... except Exception as e: print(...),
\* and update() returns None
update_result(sink, state, fault, accepted) ==
    LET r == try_except(send_pygame_surface_result(sink, state, fault, accepted))
    IN IF r.kind = "raise" THEN Raised ELSE Returned(None)

\* a caller calls entry on a sink
SinkCall(entry, sink, state, fault, accepted) ==
    [pc |-> "called", entry |-> entry, sink |-> sink, state |-> state,
     fault |-> fault, accepted |-> accepted, result |-> Returned(None),
     work |-> <<>>]

\* send_frame runs to its end
SinkCall_send_frame ==
    /\ sut = "rcall"
    /\ rcall.pc = "called" /\ rcall.entry = "send_frame"
    /\ rcall' = [rcall EXCEPT !.pc = "ended",
          !.result = send_frame_result(rcall.sink, rcall.state, rcall.fault,
                                       rcall.accepted),
          !.work = send_frame_work(rcall.sink, rcall.state, rcall.fault)]
    /\ UNCHANGED <<sut, now, httpVars, udpVars, ndiVars, spoutVars, display,
                   dlog, newsVars>>

\* send_pygame_surface runs to its end
SinkCall_send_pygame_surface ==
    /\ sut = "rcall"
    /\ rcall.pc = "called" /\ rcall.entry = "send_pygame_surface"
    /\ rcall' = [rcall EXCEPT !.pc = "ended",
          !.result = send_pygame_surface_result(rcall.sink, rcall.state,
                                                rcall.fault, rcall.accepted),
          !.work = send_pygame_surface_work(rcall.sink, rcall.state,
                                            rcall.fault)]
    /\ UNCHANGED <<sut, now, httpVars, udpVars, ndiVars, spoutVars, display,
                   dlog, newsVars>>

\* the streaming dispatch of update() runs to its end
SinkCall_update ==
    /\ sut = "rcall"
    /\ rcall.pc = "called" /\ rcall.entry = "update"
    /\ rcall' = [rcall EXCEPT !.pc = "ended",
          !.result = update_result(rcall.sink, rcall.state, rcall.fault,
                                   rcall.accepted),
          !.work = send_pygame_surface_work(rcall.sink, rcall.state,
                                            rcall.fault)]
    /\ UNCHANGED <<sut, now, httpVars, udpVars, ndiVars, spoutVars, display,
                   dlog, newsVars>>

NextSinkCall ==
    \/ SinkCall_send_frame
    \/ SinkCall_send_pygame_surface
    \/ SinkCall_update

\* the sinks a run does not construct
AbsentHTTP == FreshHTTP(FALSE)

AbsentUDP == FreshUDP(FALSE)

AbsentNDI == FreshNDI("ffmpeg-ndi", FALSE)

AbsentSpout == FreshSpout(FALSE, TRUE)

\* no feed is monitored
AbsentNews == scrolling_queue = <<>> /\ monitor = NoMonitors

AbsentDisplay ==
    /\ display = AbsentDisplayRecord /\ dlog = DLogEmpty /\ rcall = NoSinkCall
    /\ AbsentNews

InitHTTP ==
    /\ sut = "http"
    /\ now = 0
    /\ \E ok \in BOOLEAN : FreshHTTP(ok)
    /\ AbsentUDP /\ AbsentNDI /\ AbsentSpout /\ AbsentDisplay

InitUDP ==
    /\ sut = "udp"
    /\ now = StartTime
    /\ \E ok \in BOOLEAN : FreshUDP(ok)
    /\ AbsentHTTP /\ AbsentNDI /\ AbsentSpout /\ AbsentDisplay

InitNDI ==
    /\ sut = "ndi"
    /\ now = StartTime
    /\ \E method \in NDIMethods, ok \in BOOLEAN : FreshNDI(method, ok)
    /\ AbsentHTTP /\ AbsentUDP /\ AbsentSpout /\ AbsentDisplay

InitSpout ==
    /\ sut = "spout"
    /\ now = 0
    /\ \E ok \in BOOLEAN, raised \in BOOLEAN : FreshSpout(ok, raised)
    /\ AbsentHTTP /\ AbsentUDP /\ AbsentNDI /\ AbsentDisplay

\* the display before __init__ sets up streaming: no sender exists yet
InitDisplay ==
    /\ sut = "display"
    /\ now = StartTime
    /\ \E enabled \in BOOLEAN, fallback_method \in FallbackMethods :
         display = ScrollingNewsDisplay_init(enabled, fallback_method)
    /\ dlog = DLogEmpty
    /\ rcall = NoSinkCall
    /\ AbsentNews
    /\ AbsentHTTP /\ AbsentUDP /\ AbsentSpout
    /\ NDI_METHOD \in NDIMethods \cup {None}
    /\ ndi = NDISender_init("ffmpeg-ndi", FALSE)
    /\ ncalls = NCallsNone
    /\ nlog = NLogEmpty

SpecHTTP == InitHTTP /\ [][NextHTTP]_vars

\* an HTTP sink whose server answers requests of every path
InitGET ==
    /\ sut = "get"
    /\ now = 0
    /\ http = HTTPVideoStreamer_init(TRUE)
    /\ frame_queue = <<>>
    /\ hsend = HSendIdle
    /\ hhandler = HHandlerIdle
    /\ hstop = HStopIdle
    /\ hlog = HLogEmpty
    /\ \E jpeg_len \in [1..MaxGetFrames -> PartSizes] :
         conn = [ConnIdle EXCEPT !.jpeg_len = jpeg_len]
    /\ AbsentUDP /\ AbsentNDI /\ AbsentSpout /\ AbsentDisplay

SpecGET == InitGET /\ [][NextGET]_vars

\* a local sink, initialised, is given one frame
InitCodec ==
    /\ sut = "codec"
    /\ now = 0
    /\ spout = SpoutSender_init(TRUE, FALSE)
    /\ scalls = NCallsNone
    /\ slog = SLogEmpty
    /\ \E backend \in {"spout", "ndi_direct"}, flip_mode \in FlipModes,
          width \in SinkDims, height \in SinkDims,
          h \in FrameDims, w \in FrameDims, ch \in ChannelCounts,
          seed \in {0, 201} :
         /\ backend = "ndi_direct" => flip_mode = "none"
         /\ codec = CodecCall(backend, flip_mode, width, height,
                              InputFrame(h, w, ch, seed))
    /\ AbsentHTTP /\ AbsentUDP /\ AbsentNDI /\ AbsentDisplay

SpecCodec == InitCodec /\ [][NextCodec]_vars

\* one call on a sink in any state, with an exception raised at any point
InitSinkCall ==
    /\ sut = "rcall"
    /\ now = 0
    /\ display = AbsentDisplayRecord
    /\ dlog = DLogEmpty
    /\ \E entry \in EntryPoints, sink \in SinkKinds, state \in SinkStates,
          fault \in FaultPoints, accepted \in BOOLEAN :
         /\ fault = "surface" => entry # "send_frame"
         /\ rcall = SinkCall(entry, sink, state, fault, accepted)
    /\ AbsentNews
    /\ AbsentHTTP /\ AbsentUDP /\ AbsentNDI /\ AbsentSpout

SpecSinkCall == InitSinkCall /\ [][NextSinkCall]_vars

\* the threads of the HTTP sink keep running: the serving thread is a started
\* daemon thread, and a stop() or send_frame that was called runs to its
\* end.  Nothing obliges a caller to call stop() or send_frame, a client to
\* connect, or the client of a blocked write to read or to leave.
FairHTTP ==
    /\ WF_vars(HTTP_handler_connect)
    /\ WF_vars(HTTP_handler_check)
    /\ WF_vars(HTTP_handler_get)
    /\ WF_vars(HTTP_handler_write)
    /\ WF_vars(HTTP_serve_forever_exit)
    /\ WF_vars(HTTP_stop_shutdown)
    /\ WF_vars(HTTP_stop_close)
    /\ WF_vars(HTTP_stop_finish)
    /\ WF_vars(HTTP_send_frame_put)
    /\ WF_vars(HTTP_send_frame_drop_oldest)
    /\ WF_vars(HTTP_send_frame_reput)

SpecHTTPFair == SpecHTTP /\ FairHTTP

SpecUDP == InitUDP /\ [][NextUDP]_vars

SpecNDI == InitNDI /\ [][NextNDI]_vars

SpecSpout == InitSpout /\ [][NextSpout]_vars

SpecDisplay == InitDisplay /\ [][NextDisplay]_vars

\* every object, each driven alone
Spec ==
    /\ InitHTTP \/ InitUDP \/ InitNDI \/ InitSpout \/ InitDisplay
    /\ [][NextHTTP \/ NextUDP \/ NextNDI \/ NextSpout \/ NextDisplay]_vars

\* the calls of the owner of an HTTP sink to which no client connects
NextHTTPOwner ==
    \/ HTTP_send_frame_begin
    \/ HTTP_send_frame_put
    \/ HTTP_send_frame_drop_oldest
    \/ HTTP_send_frame_reput
    \/ HTTP_serve_forever_exit
    \/ HTTP_stop_begin
    \/ HTTP_stop_shutdown
    \/ HTTP_stop_close
    \/ HTTP_stop_finish

\* each of the four sinks, driven alone by the thread that owns it
SpecSinks ==
    /\ InitHTTP \/ InitUDP \/ InitNDI \/ InitSpout
    /\ [][NextHTTPOwner \/ NextUDP \/ NextNDI \/ NextSpout]_vars

\* a UDP sink that has sent 2^32 - 1 frames: its next frame_seq is 2^32 - 1
InitWrap ==
    /\ sut = "udp"
    /\ now = StartTime
    /\ udp = [UDPVideoStreamer_init(TRUE) EXCEPT
                !.frame_count = LimbBase - 1, !.frame_count_hi = LimbBase - 1]
    /\ usend = USendIdle
    /\ ustop = UStopIdle
    /\ wire = <<>>
    /\ ulog = ULogEmpty
    /\ AbsentHTTP /\ AbsentNDI /\ AbsentSpout /\ AbsentDisplay

\* the UDP sink around the frame whose frame_seq is 2^32 - 1
SpecWrap == InitWrap /\ [][NextUDP]_vars

\* news_monitor with one thread per feed, the feeds named in every way
InitNews ==
    /\ sut = "news"
    /\ now = 0
    /\ scrolling_queue = <<>>
    /\ \E names \in [FeedThreads -> FeedNames] : monitor = NewsMonitor(names)
    /\ display = AbsentDisplayRecord /\ dlog = DLogEmpty /\ rcall = NoSinkCall
    /\ AbsentHTTP /\ AbsentUDP /\ AbsentNDI /\ AbsentSpout

SpecNews == InitNews /\ [][NextNews]_vars

\* one initialised UDP sink and the threads that send frames to it
InitLock ==
    /\ sut = "lock"
    /\ now = StartTime
    /\ udp = UDPVideoStreamer_init(TRUE)
    /\ usend = LockIdle
    /\ ustop = UStopIdle
    /\ wire = <<>>
    /\ ulog = ULogEmpty
    /\ AbsentHTTP /\ AbsentNDI /\ AbsentSpout /\ AbsentDisplay

SpecLock == InitLock /\ [][NextLock]_vars

\* an HTTP sink to which as many frames as the queue holds were sent before
\* the first client connects
InitFullQueue ==
    /\ sut = "http"
    /\ now = 0
    /\ http = [HTTPVideoStreamer_init(TRUE) EXCEPT !.frame_count = QueueMaxSize]
    /\ frame_queue = [k \in 1..QueueMaxSize |-> k]
    /\ hsend = [HSendIdle EXCEPT !.calls = QueueMaxSize]
    /\ hhandler = HHandlerIdle
    /\ hstop = HStopIdle
    /\ hlog = [HLogEmpty EXCEPT
                 !.returns = [k \in 1..QueueMaxSize |->
                                [id |-> k, accepted |-> TRUE, ret |-> TRUE]],
                 !.enqueued = [k \in 1..QueueMaxSize |-> k]]
    /\ conn = ConnIdle
    /\ AbsentUDP /\ AbsentNDI /\ AbsentSpout /\ AbsentDisplay

\* an HTTP sink whose initialize() failed
InitFailedHTTP ==
    /\ sut = "http"
    /\ now = 0
    /\ FreshHTTP(FALSE)
    /\ AbsentUDP /\ AbsentNDI /\ AbsentSpout /\ AbsentDisplay

\* the two sinks of create_simple_streamer, each with its threads; the HTTP
\* sink from the full queue on, or after a failed initialize()
SpecOrder ==
    (InitFullQueue \/ InitFailedHTTP \/ InitUDP) /\ [][NextHTTP \/ NextUDP]_vars

\* the rate-limited sinks
SpecRate == (InitUDP \/ InitNDI) /\ [][NextUDP \/ NextNDI]_vars

\* a rate-limited sink constructed when time.time() reads 0
InitEpoch ==
    /\ sut \in {"udp", "ndi"}
    /\ now = 0
    /\ IF sut = "udp"
         THEN /\ \E ok \in BOOLEAN : FreshUDP(ok)
              /\ AbsentNDI
         ELSE /\ \E method \in NDIMethods, ok \in BOOLEAN : FreshNDI(method, ok)
              /\ AbsentUDP
    /\ AbsentHTTP /\ AbsentSpout /\ AbsentDisplay

\* the rate-limited sinks, the clock starting at 0
SpecEpoch == InitEpoch /\ [][NextUDP \/ NextNDI]_vars

(***************************************************************************)
(* Claims about the HTTP sink                                               *)
(***************************************************************************)
\* the frames of the send_frame calls that returned True, in call order
HSentFrames ==
    LET ok == SelectSeq(hlog.returns, LAMBDA r : r.ret)
    IN  [k \in 1..Len(ok) |-> ok[k].id]

\* C1: with no consumer draining, after n successful send_frame calls the
\* queue holds exactly the min(n, 10) most recently sent frames in send order,
\* and every call that got past conversion returned True, also on a full queue.
C1_QueueKeepsMostRecent ==
    (hlog.dequeued = <<>> /\ hsend.pc = "idle") =>
        /\ frame_queue = LastN(HSentFrames, 10)
        /\ \A k \in 1..Len(hlog.returns) :
             hlog.returns[k].accepted => hlog.returns[k].ret

\* an 11th frame was sent into a full queue that nobody drains
C1_Witness ==
    /\ hlog.dequeued = <<>>
    /\ hsend.pc = "idle"
    /\ Len(HSentFrames) = 11
    /\ hlog.evicted = <<1>>
    /\ Len(frame_queue) = 10

\* C9: under any interleaving of send_frame with the stream handler's
\* dequeues the frame queue never holds more than 10 frames.
C9_QueueBounded == Len(frame_queue) <= 10

\* the queue is full while a send is in progress and the handler has dequeued
C9_Witness ==
    /\ Len(frame_queue) = 10
    /\ hsend.pc = "full"
    /\ hlog.dequeued # <<>>
    /\ hhandler.pc = "get"

\* C10: whenever send_frame returns True the frame it was given has been
\* appended to the queue.
C10_TrueMeansEnqueued ==
    \A k \in 1..Len(hlog.returns) :
        hlog.returns[k].ret =>
            \E j \in 1..Len(hlog.enqueued) :
                hlog.enqueued[j] = hlog.returns[k].id

\* C6: for every sink, a stop() called after a stop() has completed makes no
\* further release call and leaves the sink unchanged.
C6_SecondStopReleasesNothing ==
    [][/\ (hstop.stops >= 1 /\ hstop' # hstop) =>
             (hlog'.releases = hlog.releases /\ http' = http)
       /\ (ustop.stops >= 1 /\ ustop' # ustop) =>
             (ulog'.releases = ulog.releases /\ udp' = udp)
       /\ (ncalls.stops >= 1 /\ ncalls'.stops # ncalls.stops) =>
             (nlog'.releases = nlog.releases /\ ndi' = ndi)
       /\ (scalls.stops >= 1 /\ scalls'.stops # scalls.stops) =>
             (slog'.releases = slog.releases /\ spout' = spout)]_vars

(***************************************************************************)
(* Claims about the UDP sink.  A datagram is read the way a receiver reads  *)
(* it: the first bytes are the packed header.                               *)
(***************************************************************************)
\* the magic number says whether a datagram is a fragment
IsFragment(d) == d.bytes[1].src = "FRAG"

\* frame_seq, the second header field of both kinds of datagram
FrameSeq(d) == d.bytes[1].w * LimbBase + d.bytes[1].a

FragmentIndex(d) == d.bytes[1].b

FragmentCount(d) == d.bytes[1].c

\* the bytes after the 16-byte fragment header
FragmentChunk(d) == BSlice(d.bytes, FragmentHeaderSize, BLen(d.bytes))

\* the positions on the wire of the datagrams written for frame id
DatagramsOf(id) == {k \in 1..Len(wire) : wire[k].frame = id}

CeilDiv(a, b) == (a + b - 1) \div b

\* the last finished call transmitted a frame in fragments
SentFragmented ==
    /\ ulog.call.path = "sent"
    /\ \E k \in DatagramsOf(ulog.call.id) : IsFragment(wire[k])

\* the fragment_index values of frame id are pairwise distinct and are 0 .. n-1
IndicesCover(id, n) ==
    /\ Cardinality(DatagramsOf(id)) = n
    /\ {FragmentIndex(wire[k]) : k \in DatagramsOf(id)} = 0..(n - 1)
    /\ \A k \in DatagramsOf(id) : IsFragment(wire[k])

RECURSIVE ConcatChunks(_, _, _)
\* the chunks of frame id with fragment_index i .. n-1, concatenated in index
\* order whatever their order on the wire
ConcatChunks(id, i, n) ==
    IF i >= n THEN <<>>
    ELSE LET k == CHOOSE k \in DatagramsOf(id) : FragmentIndex(wire[k]) = i
         IN  BCat(FragmentChunk(wire[k]), ConcatChunks(id, i + 1, n))

\* what a receiver holding every datagram of frame id puts together
Reassembled(id) ==
    LET ks == DatagramsOf(id)
        any == CHOOSE k \in ks : TRUE
    IN  IF IsFragment(wire[any])
          THEN ConcatChunks(id, 0, Cardinality(ks))
          ELSE BSlice(wire[any].bytes, HeaderSize, BLen(wire[any].bytes))

C7_FrameSeqIdentifiesFrame ==
    \A j, k \in 1..Len(wire) :
        /\ FrameSeq(wire[j]) = FrameSeq(wire[k]) => wire[j].frame = wire[k].frame
        /\ wire[j].frame < wire[k].frame => FrameSeq(wire[j]) < FrameSeq(wire[k])

(***************************************************************************)
(* Claims about the frame-rate limit of the UDP and NDI sinks               *)
(***************************************************************************)
\* the last finished send_frame call of each rate-limited sink, when the sink
\* was initialised
RateCalls ==
    {c \in {ulog.call, nlog.call} : c.id # 0 /\ c.path # "uninitialized"}

\* now - last_frame_time >= frame_interval when the call read the clock
IntervalElapsed(c) == c.current_time - c.last >= FrameInterval

\* any two frames sent in full were offered at least one interval apart
NoCredit(accepted) ==
    \A i, j \in 1..Len(accepted) :
        i < j => accepted[j] - accepted[i] >= FrameInterval

\* C4 (as stated): a frame offered at time now is transmitted and
\* last_frame_time becomes now if and only if now - last_frame_time >=
\* frame_interval; otherwise nothing is transmitted, last_frame_time is
\* unchanged and the call returns True; accepted frames are at least one
\* interval apart.
C4_SentIffIntervalElapsed ==
    /\ \A c \in RateCalls :
         /\ (c.path = "sent" /\ c.last_after = c.current_time)
                <=> IntervalElapsed(c)
         /\ ~IntervalElapsed(c) =>
                (c.written = 0 /\ c.last_after = c.last /\ c.ret)
    /\ NoCredit(ulog.accepted)
    /\ NoCredit(nlog.accepted)

\* C4 (amended): on an initialised sink an offer made less than one interval
\* after last_frame_time transmits nothing, leaves last_frame_time unchanged
\* and returns True.  An offer made later is attempted, and last_frame_time
\* becomes the offer time exactly when the whole frame was sent and the call
\* returns True; a frame that fails to convert, encode or send returns False
\* and leaves last_frame_time unchanged.  Frames sent in full are at least one
\* interval apart.
C4_SentOnlyIfIntervalElapsed ==
    /\ \A c \in RateCalls :
         /\ ~IntervalElapsed(c) =>
                /\ c.path = "rate_limited"
                /\ c.written = 0 /\ c.last_after = c.last /\ c.ret
         /\ IntervalElapsed(c) =>
                /\ c.path \in {"sent", "convert", "sendto_raised", "failed"}
                /\ c.path = "sent" =>
                     (c.ret /\ c.written = c.planned
                            /\ c.last_after = c.current_time)
                /\ c.path # "sent" => (~c.ret /\ c.last_after = c.last)
    /\ ulog.call.id # 0 => udp.last_frame_time = ulog.call.last_after
    /\ nlog.call.id # 0 => ndi.last_frame_time = nlog.call.last_after
    /\ NoCredit(ulog.accepted)
    /\ NoCredit(nlog.accepted)

\* a frame sent in full, then an offer made later and dropped by the limiter
C4_Witness ==
    /\ Len(ulog.accepted) = 1
    /\ ulog.call.path = "rate_limited"
    /\ ulog.call.current_time > ulog.call.last

(***************************************************************************)
(* Claims about ScrollingNewsDisplay                                        *)
(***************************************************************************)
\* the place of a sender class in the order Spout, NDI, simple streamer
SenderRank(sink) ==
    IF sink = "spout" THEN 1 ELSE IF sink = "ndi" THEN 2 ELSE 3

\* C5: senders are constructed in the order Spout, NDI, simple streamer; none
\* is constructed after one that initialised; and every sender a frame is
\* handed to is one whose initialisation succeeded.
C5_PriorityOrderFirstSuccess ==
    LET c == dlog.constructed IN
    /\ \A i, j \in 1..Len(c) :
         i < j => (SenderRank(c[i].sink) < SenderRank(c[j].sink) /\ ~c[i].ok)
    /\ \A k \in 1..Len(dlog.offered) :
         \E i \in 1..Len(c) : c[i].sink = dlog.offered[k] /\ c[i].ok

\* Spout and NDI failed, the simple streamer initialised and was sent a frame
C5_Witness ==
    /\ Len(dlog.constructed) = 3
    /\ dlog.constructed[3].ok
    /\ dlog.offered # <<>>

\* __init__ has returned and no sender initialised
AllSendersFailed ==
    /\ display.pc \in {"running", "closed"}
    /\ \A i \in 1..Len(dlog.constructed) : ~dlog.constructed[i].ok

\* C8: when every sender failed to initialise the display holds no sender,
\* every update() made so far has completed, no frame reached any sink, and
\* no sink reports a connection.
C8_NoSinkIsHarmless ==
    AllSendersFailed =>
        /\ display.spout_sender = None
        /\ display.ndi_sender = None
        /\ display.simple_streamer = None
        /\ ~display.streaming_enabled
        /\ dlog.updates = display.ticks
        /\ dlog.offered = <<>>
        /\ wire = <<>> /\ frame_queue = <<>>
        /\ nlog.frames = 0 /\ slog.frames = 0
        /\ UDP_get_connection_count = 0
        /\ HTTP_get_connection_count = 0
        /\ Spout_get_connection_count = 0
        /\ \A receivers \in 0..MaxClients :
              NDI_get_connection_count(receivers) = 0

\* Spout, NDI and the HTTP streamer were all tried and failed, and the main
\* loop has passed a tick on which a frame would be dispatched
C8_Witness ==
    /\ AllSendersFailed
    /\ Len(dlog.constructed) = 3
    /\ dlog.constructed[3].sink = "http"
    /\ display.ticks >= syphon_update_interval

(***************************************************************************)
(* Claims about the clients of the HTTP sink                                *)
(***************************************************************************)
\* C11: while the sink is sending, a client that has requested /stream.mjpg
\* is accepted and served, also when another client is being streamed to
\* (runs in which a write to a client blocks are left aside).
C11_WaitingClientIsServed ==
    \/ <>(hhandler.pc = "blocked")
    \/ (hhandler.waiting > 0 /\ http.is_sending)
           ~> (hhandler.waiting = 0 \/ ~http.is_sending)

\* C16: a stop() that has found the server set returns: the server is shut
\* down and closed and the streaming handler has left its loop.
C16_StopReturns ==
    (hstop.pc \in {"shutdown", "wait"})
        ~> (hstop.pc = "idle" /\ http.server = "closed" /\ hhandler.pc = "idle")

(***************************************************************************)
(* Claims about the datagrams of one frame                                  *)
(***************************************************************************)
\* C12: a frame whose 24-byte header plus payload is at most 65507 bytes is
\* sent as exactly one datagram, the frame header followed by the payload;
\* fragment datagrams are written only for a larger frame.
C12_SmallFrameIsOneDatagram ==
    LET id == ulog.call.id
        size == ulog.call.size
    IN
    /\ ulog.call.path = "sent" =>
         IF 24 + size <= 65507
           THEN /\ Cardinality(DatagramsOf(id)) = 1
                /\ \A k \in DatagramsOf(id) :
                     wire[k].bytes =
                        BCat(PackFrameHeader(udp.frame_count - 1,
                                             ulog.call.current_time),
                             JpegBytes(id, size))
           ELSE \A k \in DatagramsOf(id) : IsFragment(wire[k])
    /\ (\E k \in DatagramsOf(id) : IsFragment(wire[k])) => 24 + size > 65507

\* the largest payload that fits one datagram with its header was sent
C12_Witness ==
    /\ ulog.call.path = "sent"
    /\ 24 + ulog.call.size = 65507
    /\ Cardinality(DatagramsOf(ulog.call.id)) = 1

\* C13: the fragments of one frame carry one frame_seq and one
\* fragment_count, every fragment_index is below fragment_count, and the
\* fragments are written in the order of fragment_index, starting at 0.
C13_FragmentsInIndexOrder ==
    /\ \A j, k \in 1..Len(wire) :
         (wire[j].frame = wire[k].frame /\ IsFragment(wire[j])
                                        /\ IsFragment(wire[k])) =>
            /\ FrameSeq(wire[j]) = FrameSeq(wire[k])
            /\ FragmentCount(wire[j]) = FragmentCount(wire[k])
            /\ j < k => FragmentIndex(wire[j]) < FragmentIndex(wire[k])
    /\ \A k \in 1..Len(wire) :
         IsFragment(wire[k]) =>
            /\ FragmentIndex(wire[k]) < FragmentCount(wire[k])
            /\ FragmentIndex(wire[k]) =
                 IF k > 1 /\ wire[k - 1].frame = wire[k].frame
                   THEN FragmentIndex(wire[k - 1]) + 1 ELSE 0

\* two frames were written in fragments, the later one in three
C13_Witness ==
    \E j, k \in 1..Len(wire) :
        /\ wire[j].frame < wire[k].frame
        /\ IsFragment(wire[j])
        /\ FragmentIndex(wire[k]) = 2 /\ IsFragment(wire[k])

(***************************************************************************)
(* Claims about the first frame offered to a rate-limited sink              *)
(***************************************************************************)
\* the times of the frames accepted before the call c
AcceptedBefore(c, accepted) ==
    IF c.path = "sent" THEN SubSeq(accepted, 1, Len(accepted) - 1)
    ELSE accepted

\* C14, for one sink: a valid frame offered first to an initialised sink is
\* sent whatever the clock reads; a valid frame offered after a frame was
\* accepted is sent iff frame_interval has passed since that frame.
C14_Accepts(c, accepted) ==
    LET before == AcceptedBefore(c, accepted) IN
    (c.id # 0 /\ c.path \in {"sent", "rate_limited"}) =>
        /\ c.id = 1 => c.path = "sent"
        /\ before # <<>> =>
             (c.path = "sent"
                <=> c.current_time - before[Len(before)] >= FrameInterval)

\* C14: starting from a freshly initialised rate-limited sink, the first
\* frame offered is accepted whatever its timestamp (time 0 included), and
\* thereafter an offer is accepted iff at least frame_interval has passed
\* since the last accepted offer.
C14_FirstOfferAccepted ==
    /\ C14_Accepts(ulog.call, ulog.accepted)
    /\ C14_Accepts(nlog.call, nlog.accepted)

Receivers == 0..2

\* C17: for each of the four sinks, once a stop() has returned a send_frame
\* called later returns False and writes no datagram, enqueues no frame,
\* calls no backend and starts no ffmpeg process, and is_connected() is False
\* and get_connection_count() is 0 from then on.
C17_StoppedIsPermanent ==
    [][/\ (ustop.stops > 0 /\ usend'.calls # usend.calls) =>
            /\ usend'.pc = "idle" /\ ~ulog'.call.ret
            /\ wire' = wire /\ udp' = udp
       /\ (hstop.stops > 0 /\ hsend'.calls # hsend.calls) =>
            /\ hsend'.pc = "idle"
            /\ ~hlog'.returns[Len(hlog'.returns)].ret
            /\ frame_queue' = frame_queue /\ http' = http
       /\ (ncalls.stops > 0 /\ ncalls'.calls # ncalls.calls) =>
            /\ ~nlog'.call.ret
            /\ nlog'.frames = nlog.frames /\ nlog'.popen = nlog.popen
            /\ ndi' = ndi
       /\ (scalls.stops > 0 /\ scalls'.calls # scalls.calls) =>
            /\ ~slog'.call.ret
            /\ slog'.frames = slog.frames /\ spout' = spout
       /\ ustop'.stops > 0 =>
            (~UDP_is_connected' /\ UDP_get_connection_count' = 0)
       /\ hstop'.stops > 0 =>
            (~HTTP_is_connected' /\ HTTP_get_connection_count' = 0)
       /\ scalls'.stops > 0 =>
            (~Spout_is_connected' /\ Spout_get_connection_count' = 0)
       /\ ncalls'.stops > 0 =>
            \A r \in Receivers :
                (~NDI_is_connected(r)' /\ NDI_get_connection_count(r)' = 0)
      ]_vars

\* an NDI sender that had started its ffmpeg process was stopped, and a
\* send_frame called afterwards has returned
C17_Witness ==
    /\ NDI_METHOD = "ffmpeg-ndi"
    /\ ncalls.stops > 0
    /\ nlog.popen = 1
    /\ nlog.call.path = "uninitialized"

(***************************************************************************)
(* Claims about a send_frame that fails on an initialised sink              *)
(***************************************************************************)
\* the time of the last frame accepted before the call c; 0, the initial
\* last_frame_time, when there is none
LastAccepted(c, accepted) ==
    LET before == AcceptedBefore(c, accepted) IN
    IF before = <<>> THEN 0 ELSE before[Len(before)]

\* C18: on an initialised sink on which stop() was not called, a send_frame
\* that fails (unsupported shape, encode failure, a socket or backend call
\* that raises or refuses) returns False and leaves is_initialized and
\* is_sending true; a valid frame offered after such a failure, one frame
\* interval or more after the last accepted frame, is sent and the call
\* returns True, unless a socket or backend call fails again.
C18_FailedSendKeepsSink ==
    [][/\ (ulog'.call # ulog.call /\ udp.is_initialized
             /\ ustop.stops = 0 /\ ustop.pc = "idle") =>
            LET c == ulog'.call IN
            /\ c.path \in {"convert", "sendto_raised"} =>
                 (~c.ret /\ udp'.is_initialized /\ udp'.is_sending)
            /\ (/\ usend.bad + usend.fails > 0
                /\ c.kind = "ok" /\ usend'.fails = usend.fails
                /\ c.current_time - LastAccepted(c, ulog'.accepted)
                      >= FrameInterval) =>
                 (c.path = "sent" /\ c.ret /\ c.written = c.planned
                                  /\ Len(wire') > Len(wire))
       /\ (nlog'.call # nlog.call /\ ndi.is_initialized /\ ncalls.stops = 0) =>
            LET c == nlog'.call IN
            /\ c.path = "failed" =>
                 (~c.ret /\ ndi'.is_initialized /\ ndi'.is_sending)
            /\ (/\ ncalls.bad + ncalls.fails > 0
                /\ c.kind = "ok" /\ ncalls'.fails = ncalls.fails
                /\ \/ NDI_METHOD = "ndi-python"
                   \/ NDI_METHOD = "ffmpeg-ndi" /\ ndi'.ffmpeg_process # None
                /\ c.current_time - LastAccepted(c, nlog'.accepted)
                      >= FrameInterval) =>
                 (c.path = "sent" /\ c.ret /\ nlog'.frames = nlog.frames + 1)
       /\ (slog'.call # slog.call /\ spout.is_initialized /\ scalls.stops = 0) =>
            LET c == slog'.call IN
            /\ c.path = "failed" =>
                 (~c.ret /\ spout'.is_initialized /\ spout'.is_sending)
            /\ (/\ scalls.bad + scalls.fails > 0
                /\ c.kind = "ok" /\ scalls'.fails = scalls.fails) =>
                 (c.path = "sent" /\ c.ret /\ slog'.frames = slog.frames + 1)
       /\ (Len(hlog'.returns) > Len(hlog.returns) /\ http.is_initialized
             /\ hstop.stops = 0 /\ hstop.pc = "idle") =>
            LET r == hlog'.returns[Len(hlog'.returns)] IN
            /\ ~r.ret => (http'.is_initialized /\ http'.is_sending)
            /\ r.accepted => r.ret
      ]_vars

\* a sendto raised in one send_frame of the UDP sink, and the valid frame
\* offered next has been sent in full
C18_Witness ==
    /\ usend.fails = 1
    /\ ustop.stops = 0 /\ ustop.pc = "idle"
    /\ ulog.call.id = 2
    /\ ulog.call.path = "sent"
    /\ udp.is_initialized /\ udp.is_sending

(***************************************************************************)
(* Claims about the sender the display holds                                *)
(***************************************************************************)
\* the senders of the display that are non-null and initialised
ActiveSinks ==
    {k \in {"spout", "ndi", "simple"} :
        \/ k = "spout" /\ display.spout_sender # None /\ spout.is_initialized
        \/ k = "ndi" /\ display.ndi_sender # None /\ ndi.is_initialized
        \/ k = "simple" /\ display.simple_streamer = "udp" /\ udp.is_initialized
        \/ k = "simple" /\ display.simple_streamer = "http"
                        /\ http.is_initialized}

\* the number of send_frame calls made on the four sinks
SendCalls == scalls.calls + ncalls.calls + usend.calls + hsend.calls

\* C19 (as stated): after sink selection and in every later state at most
\* one of the Spout sender, the NDI sender and the simple streamer is active,
\* streaming_enabled is true exactly when one of them is, and each update()
\* offers the frame to at most one of them.
C19_OneActiveSinkAlways ==
    [][/\ display'.pc \in {"running", "closed"} =>
            /\ Cardinality(ActiveSinks') <= 1
            /\ display'.streaming_enabled <=> ActiveSinks' # {}
       /\ SendCalls' <= SendCalls + 1
       /\ Len(dlog'.offered) <= Len(dlog.offered) + 1
      ]_vars

\* C19 (amended): after sink selection at most one of the three senders is
\* active and each update() offers the frame to at most one of them; until
\* close() streaming_enabled is true exactly when one of them is active;
\* close() stops the sender and leaves streaming_enabled as it was.
C19_OneActiveSinkUntilClose ==
    [][/\ display'.pc \in {"running", "closed"} =>
            Cardinality(ActiveSinks') <= 1
       /\ display'.pc = "running" =>
            (display'.streaming_enabled <=> ActiveSinks' # {})
       /\ display'.pc = "closed" =>
            /\ ActiveSinks' = {}
            /\ display'.streaming_enabled = display.streaming_enabled
       /\ SendCalls' <= SendCalls + 1
       /\ Len(dlog'.offered) <= Len(dlog.offered) + 1
      ]_vars

\* a display whose one sender was offered frames has been closed:
\* streaming_enabled is still true and no sender is active
C19_Witness ==
    /\ display.pc = "closed"
    /\ display.streaming_enabled
    /\ Len(dlog.offered) >= 2
    /\ ActiveSinks = {}

\* the last sender class the display constructed, with its is_initialized
LastConstructed == dlog.constructed[Len(dlog.constructed)]

\* C20: when neither Spout nor NDI is enabled and the fallback streamer
\* initialised, the display holds, until close(), the streamer of
\* fallback_method as its only active sender: for 'udp' the UDP streamer,
\* with is_connected() true and get_connection_count() 1, for 'http' the
\* HTTP streamer, likewise.
C20_FallbackStreamerIsActive ==
    (/\ display.pc = "running"
     /\ dlog.constructed # <<>>
     /\ LastConstructed.sink \in {"udp", "http"}
     /\ LastConstructed.ok) =>
        /\ ~display.spout_enabled /\ ~display.ndi_enabled
        /\ display.streaming_enabled
        /\ display.simple_streamer = display.fallback_method
        /\ ActiveSinks = {"simple"}
        /\ DispatchTarget(display, TRUE) = display.fallback_method
        /\ display.fallback_method = "udp" =>
             /\ UDP_is_connected /\ UDP_get_connection_count = 1
             /\ ~HTTP_is_connected
        /\ display.fallback_method = "http" =>
             /\ HTTP_is_connected /\ HTTP_get_connection_count = 1
             /\ ~UDP_is_connected

\* Spout and NDI were both constructed and did not initialise, the 'udp'
\* fallback did, and a frame has been offered to it
C20_Witness ==
    /\ display.pc = "running"
    /\ Len(dlog.constructed) = 3
    /\ LastConstructed = [sink |-> "udp", ok |-> TRUE]
    /\ UDP_get_connection_count = 1
    /\ dlog.offered # <<>>

(***************************************************************************)
(* Claims about the sizes of the datagrams                                  *)
(***************************************************************************)
\* C30: every datagram written is at most 65507 bytes long; the chunk of a
\* fragment is at most 65507 - 16 bytes and is not empty, and only the last
\* fragment of a frame has a chunk shorter than 65507 - 16 bytes.
C30_DatagramSizes ==
    \A k \in 1..Len(wire) :
        /\ BLen(wire[k].bytes) <= 65507
        /\ IsFragment(wire[k]) =>
             /\ BLen(FragmentChunk(wire[k])) <= 65507 - 16
             /\ BLen(FragmentChunk(wire[k])) > 0
             /\ FragmentIndex(wire[k]) < FragmentCount(wire[k]) - 1 =>
                  BLen(FragmentChunk(wire[k])) = 65507 - 16

\* a frame was written as three fragments, two of full size and a last one
\* that carries a single byte
C30_Witness ==
    \E k \in 1..Len(wire) :
        /\ IsFragment(wire[k])
        /\ FragmentIndex(wire[k]) = 2 /\ FragmentCount(wire[k]) = 3
        /\ BLen(FragmentChunk(wire[k])) = 1
        /\ BLen(wire[k - 1].bytes) = 65507

(***************************************************************************)
(* Claims about a frame of an unsupported shape                             *)
(***************************************************************************)
\* what C27 says is left alone by a send_frame, for the sink of the step
C27_NothingPassed ==
    /\ wire' = wire /\ udp' = udp
    /\ frame_queue' = frame_queue /\ http' = http
    /\ nlog'.frames = nlog.frames /\ ndi'.last_frame_time = ndi.last_frame_time
    /\ slog'.frames = slog.frames /\ spout' = spout

SeqIsUInt32Max(d) == d.bytes[1].w = LimbBase - 1 /\ d.bytes[1].a = LimbBase - 1

\* C22: after the frame with frame_seq = 2^32 - 1 has been sent, a valid frame
\* offered one frame interval later or more, to a sink that was not stopped
\* and whose socket accepts the datagrams, is sent, and its header carries
\* frame_seq = 0, the counter modulo 2^32.
C22_SeqWrapsAt32Bits ==
    (/\ \E k \in 1..Len(wire) :
           wire[k].frame < ulog.call.id /\ SeqIsUInt32Max(wire[k])
     /\ ulog.call.kind = "ok"
     /\ ulog.call.path
           \notin {"uninitialized", "rate_limited", "sendto_raised"}) =>
        /\ ulog.call.path = "sent"
        /\ \E k \in DatagramsOf(ulog.call.id) :
              wire[k].bytes[1].w = 0 /\ wire[k].bytes[1].a = 0


(***************************************************************************)
(* Claims about the requests the HTTP sink answers                          *)
(***************************************************************************)
\* the value of the response header name, None when it was not sent
HeaderValue(name) ==
    IF \E k \in 1..Len(conn.headers) : conn.headers[k][1] = name
      THEN LET k == CHOOSE j \in 1..Len(conn.headers) :
                       conn.headers[j][1] = name
           IN conn.headers[k][2]
      ELSE None

\* C28: a GET for '/' is answered 200 with the HTML page, a GET for
\* '/stream.mjpg' is answered 200 with Content-Type 'multipart/x-mixed-replace;
\* boundary=frame', and a GET for any other path is answered 404, starts no
\* stream and makes no call on the frame queue.
C28_Routing ==
    conn.pc \notin {"idle", "do_GET"} =>
        IF conn.path = "/"
          THEN /\ conn.status = 200
               /\ conn.body = "html"
               /\ HeaderValue("Content-Type") = "text/html"
               /\ conn.parts = <<>> /\ ~conn.gets
        ELSE IF conn.path = "/stream.mjpg"
          THEN /\ conn.status = 200
               /\ conn.body = "parts"
               /\ HeaderValue("Content-Type") =
                      "multipart/x-mixed-replace; boundary=frame"
          ELSE /\ conn.status = 404
               /\ conn.body = "error"
               /\ conn.pc = "done"
               /\ conn.parts = <<>> /\ ~conn.gets

\* a request for a path that starts like a served one has been answered while
\* frames were queued, and an earlier stream request was served a frame
C28_Witness ==
    /\ conn.requests = 2
    /\ conn.path = "/stream.mjpg/"
    /\ conn.status = 404
    /\ frame_queue # <<>>
    /\ hlog.dequeued # <<>>

\* CR LF
CRLF == <<13, 10>>

\* '--frame'
BoundaryLine == <<45, 45, 102, 114, 97, 109, 101>>

\* 'Content-Type: image/jpeg'
ContentTypeLine ==
    <<67, 111, 110, 116, 101, 110, 116, 45, 84, 121, 112, 101, 58, 32, 105,
      109, 97, 103, 101, 47, 106, 112, 101, 103>>

\* one part as the multipart format has it, for the JPEG bytes data
MultipartPart(data) ==
    BoundaryLine \o CRLF \o ContentTypeLine \o CRLF
    \o ContentLengthName \o Decimal(Len(data)) \o CRLF \o CRLF
    \o data \o CRLF

\* C29: every frame written whole to a /stream.mjpg client is the boundary
\* line '--frame', the lines 'Content-Type: image/jpeg' and 'Content-Length: N'
\* with N the number of JPEG bytes, an empty line, the N JPEG bytes and a line
\* terminator, every line terminator being the two bytes CR LF.
C29_PartFormat ==
    \A k \in 1..Len(conn.parts) :
        conn.parts[k].complete =>
            conn.parts[k].bytes =
                MultipartPart(JpegData(conn.parts[k].frame,
                                       conn.jpeg_len[conn.parts[k].frame]))

(***************************************************************************)
(* Claims about the frame conversion of the local sinks                     *)
(***************************************************************************)
\* C24: for every frame of 3 or 4 channels, of any size, the buffer handed
\* to the backend of a local sink (Spout, NDI direct) has exactly 4 channels
\* and exactly width * height * 4 bytes, for the width and height the sink is
\* configured with.
C24_HandedBufferShape ==
    (codec.pc # "idle" /\ codec.handed # NotHanded) =>
        LET data == codec.handed.data IN
        /\ codec.offered.ch \in {3, 4}
        /\ data.ch = 4
        /\ tobytes_len(data) = codec.width * codec.height * 4
        /\ Len(data.px) = codec.height
        /\ \A r \in 1..Len(data.px) :
              /\ Len(data.px[r]) = codec.width
              /\ \A c \in 1..Len(data.px[r]) : Len(data.px[r][c]) = 4

\* a frame of 3 channels, taller and narrower than the sink, was handed on
C24_Witness ==
    /\ codec.pc = "returned"
    /\ codec.handed # NotHanded
    /\ codec.backend = "ndi_direct"
    /\ codec.offered.ch = 3
    /\ codec.offered.h = 2 /\ codec.offered.w = 1
    /\ codec.height = 1 /\ codec.width = 2

\* C25: the channel conversion turns an RGBA pixel (r, g, b, a) into
\* (b, g, r, a) and an RGB pixel (r, g, b) into (b, g, r, 255), and the array
\* the caller passed is not modified.
C25_ChannelConversion ==
    codec.pc # "idle" =>
        /\ codec.heap[codec.frame_data] = codec.offered
        /\ codec.converted # NoArray =>
             /\ codec.converted.h = codec.offered.h
             /\ codec.converted.w = codec.offered.w
             /\ \A r \in 1..codec.offered.h, c \in 1..codec.offered.w :
                  LET p == codec.offered.px[r][c]
                      q == codec.converted.px[r][c]
                  IN IF codec.offered.ch = 4
                       THEN q = <<p[3], p[2], p[1], p[4]>>
                       ELSE q = <<p[3], p[2], p[1], 255>>

\* an RGBA frame of four pixels went through the whole conversion
C25_Witness ==
    /\ codec.pc = "returned"
    /\ codec.handed # NotHanded
    /\ codec.offered.ch = 4
    /\ codec.offered.h = 2 /\ codec.offered.w = 2
    /\ codec.offered.px[1][1][4] # 255

\* C26: in SpoutSender.send_frame flip mode 'vertical' reverses the row
\* order, 'horizontal' reverses the column order within each row, 'both' is
\* both in either order, 'none' leaves the frame as it is; the flip is made
\* on the frame after channel reordering and resize, and the same flip made
\* twice gives back the frame.
C26_Orientation ==
    (codec.pc # "idle" /\ codec.flipped # NoArray) =>
        LET in == codec.resized
            out == codec.flipped
            H == codec.height
            W == codec.width
        IN
        /\ codec.backend = "spout"
        /\ in.ch = 4 /\ in.h = H /\ in.w = W
        /\ out.ch = 4 /\ out.h = H /\ out.w = W
        /\ \A r \in 1..H, c \in 1..W :
              out.px[r][c] =
                 IF codec.flip_mode = "vertical" THEN in.px[H + 1 - r][c]
                 ELSE IF codec.flip_mode = "horizontal" THEN in.px[r][W + 1 - c]
                 ELSE IF codec.flip_mode = "both" THEN in.px[H + 1 - r][W + 1 - c]
                 ELSE in.px[r][c]
        /\ codec.flip_mode = "both" =>
              /\ out = np_flipud(np_fliplr(in))
              /\ out = np_fliplr(np_flipud(in))
        /\ Orient(codec.flip_mode, out) = in
        /\ codec.handed # NotHanded => codec.handed.data = out

\* a frame that had to be resized was flipped both ways and handed on
C26_Witness ==
    /\ codec.pc = "returned"
    /\ codec.handed # NotHanded
    /\ codec.flip_mode = "both"
    /\ codec.offered.h = 1 /\ codec.offered.w = 2
    /\ codec.height = 2 /\ codec.width = 2
    /\ codec.flipped # codec.resized

(***************************************************************************)
(* Claims about exceptions                                                  *)
(***************************************************************************)
\* C21: for any frame and any sink state (uninitialised, active, stopped,
\* backend raising), send_frame and send_pygame_surface return True or False
\* and the streaming dispatch of update() returns; none of them raises.
C21_NoExceptionReachesCaller ==
    (rcall.pc = "ended") =>
        /\ rcall.result.kind = "return"
        /\ rcall.entry \in {"send_frame", "send_pygame_surface"} =>
              rcall.result.value \in BOOLEAN

\* the backend raised inside send_frame, called through send_pygame_surface
C21_Witness ==
    /\ rcall.pc = "ended"
    /\ rcall.entry = "send_pygame_surface"
    /\ rcall.sink = "udp"
    /\ rcall.state = "active"
    /\ rcall.fault = "backend"
    /\ rcall.result = Returned(FALSE)

\* C31: on a call of a rate-limited sink (UDP, NDI) that the limiter drops,
\* no conversion of the frame is made: no channel conversion, no resize, no
\* JPEG encode.
C31_LimiterBeforeConversion ==
    (/\ rcall.pc = "ended"
     /\ rcall.sink \in RateLimitedSinks
     /\ rcall.state = "limited"
     /\ rcall.fault # "surface") =>
        rcall.work = <<>>

(***************************************************************************)
(* Claims about the order and the count of the frames sent                  *)
(***************************************************************************)
\* C32: the frames the UDP sink transmits, and the frames a stream client
\* dequeues from the HTTP sink, are the offered frames in the order of their
\* offers: some may be missing, none comes before an earlier one, none twice.
C32_FramesLeaveInOfferOrder ==
    /\ \A j, k \in 1..Len(wire) :
          j < k =>
             /\ wire[j].frame <= wire[k].frame
             /\ wire[j].frame = wire[k].frame =>
                   /\ IsFragment(wire[j]) /\ IsFragment(wire[k])
                   /\ FragmentIndex(wire[j]) < FragmentIndex(wire[k])
    /\ \A k \in 1..Len(wire) : wire[k].frame \in 1..usend.calls
    /\ \A j, k \in 1..Len(hlog.dequeued) :
          j < k => hlog.dequeued[j] < hlog.dequeued[k]
    /\ \A k \in 1..Len(hlog.dequeued) :
          /\ hlog.dequeued[k] \in 1..hsend.calls
          /\ \E e \in 1..Len(hlog.enqueued) : hlog.enqueued[e] = hlog.dequeued[k]

\* a client dequeued two frames with an evicted frame between them
C32_Witness ==
    /\ sut = "http"
    /\ hlog.evicted # <<>>
    /\ \E k \in 1..(Len(hlog.dequeued) - 1) :
          /\ hlog.dequeued[k + 1] > hlog.dequeued[k] + 1
          /\ \E e \in 1..Len(hlog.evicted) :
                /\ hlog.dequeued[k] < hlog.evicted[e]
                /\ hlog.evicted[e] < hlog.dequeued[k + 1]

\* get_stats()['frames_sent'] of the UDP sink, as its two limbs
UDP_frames_sent == <<udp.frame_count_hi, udp.frame_count>>

\* the UDP half of C34: frame_count moves, by one, in exactly the steps that
\* complete the transmission of a frame, and counts the frames sent in full
C34_UDPCountsTransmitted ==
    /\ [](sut = "udp" => UDP_frames_sent = <<0, Len(ulog.accepted)>>)
    /\ [][sut = "udp" =>
            IF Len(ulog'.accepted) = Len(ulog.accepted) + 1
              THEN /\ udp'.frame_count = udp.frame_count + 1
                   /\ ulog'.call.ret /\ ulog'.call.path = "sent"
              ELSE UDP_frames_sent' = UDP_frames_sent]_vars

\* the HTTP half of C34
C34_HTTPCountsEnqueued ==
    /\ [](sut = "http" => http.frame_count = Len(hlog.enqueued))
    /\ [][sut = "http" =>
            http'.frame_count - http.frame_count
              = Len(hlog'.enqueued) - Len(hlog.enqueued)]_vars

\* C34: frame_count of the UDP and of the HTTP sink never decreases, goes up
\* by exactly one in a send_frame that transmits (UDP) or enqueues (HTTP) its
\* frame and is left alone by every other call, so that frames_sent of
\* get_stats is the number of frames handed to the socket or to the queue.
C34_FrameCountCountsSentFrames ==
    C34_UDPCountsTransmitted /\ C34_HTTPCountsEnqueued

(***************************************************************************)
(* Claims about send_frame calls made at the same time                      *)
(***************************************************************************)

\* every datagram of frame id was written
C36_SentInFull(id) ==
    \E k \in DatagramsOf(id) :
        \/ ~IsFragment(wire[k])
        \/ FragmentIndex(wire[k]) = FragmentCount(wire[k]) - 1

\* C36: send_frame calls made at the same time on one UDPVideoStreamer are
\* serialised by its lock: at most one thread is past the with statement,
\* the datagrams of one frame lie together on the wire, none of another frame
\* between them, and two frames sent in full never carry the same frame_seq.
C36_LockSerialisesFrames ==
    sut = "lock" =>
      /\ \A t, u \in LockThreads :
           (usend.thread[t].pc = "sendto" /\ usend.thread[u].pc = "sendto")
              => t = u
      /\ \A j, k, l \in 1..Len(wire) :
           (j < k /\ k < l /\ wire[j].frame = wire[l].frame)
              => wire[k].frame = wire[j].frame
      /\ \A j, k \in 1..Len(wire) :
           (/\ C36_SentInFull(wire[j].frame) /\ C36_SentInFull(wire[k].frame)
            /\ FrameSeq(wire[j]) = FrameSeq(wire[k]))
              => wire[j].frame = wire[k].frame

\* a thread is between two fragments of its frame, and the other thread is
\* inside send_frame, waiting for the lock
C36_Witness ==
    /\ sut = "lock"
    /\ \E t, u \in LockThreads :
         /\ usend.thread[t].pc = "sendto" /\ usend.thread[t].i >= 1
         /\ usend.thread[u].pc = "lock"
         /\ \E k \in 1..Len(wire) :
              /\ wire[k].frame = usend.thread[t].frame
              /\ IsFragment(wire[k])

(***************************************************************************)
(* Claims about the ffmpeg child process of the NDI sender                  *)
(***************************************************************************)

\* the ffmpeg processes started and not yet stopped by _stop_ffmpeg_process
C35_Children ==
    nlog.popen - Cardinality({k \in 1..Len(nlog.releases) :
                                 nlog.releases[k] = "terminate"})

\* C35: an NDI sender has at most one ffmpeg child process at any time, and
\* holds it in ffmpeg_process; a process is started only by a send that finds
\* none held; a write that fails stops the process and clears the reference;
\* and when stop() has returned no process is running or referenced.
C35_OneFfmpegChild ==
    /\ [](sut = "ndi" =>
            /\ C35_Children \in {0, 1}
            /\ C35_Children = 1 <=> ndi.ffmpeg_process # None)
    /\ [][sut = "ndi" =>
            /\ nlog'.popen # nlog.popen =>
                  /\ nlog'.popen = nlog.popen + 1
                  /\ ndi.ffmpeg_process = None /\ C35_Children = 0
                  /\ ncalls'.calls = ncalls.calls + 1
            /\ ncalls'.fails # ncalls.fails /\ NDI_METHOD = "ffmpeg-ndi" =>
                  ndi'.ffmpeg_process = None /\ C35_Children' = 0
            /\ ncalls'.stops # ncalls.stops =>
                  ndi'.ffmpeg_process = None /\ C35_Children' = 0]_vars

\* a process was started, stopped by a failed write, started again by the
\* next frame and stopped by stop()
C35_Witness ==
    /\ sut = "ndi" /\ NDI_METHOD = "ffmpeg-ndi"
    /\ nlog.popen >= 2 /\ ncalls.fails >= 1 /\ ncalls.stops >= 1
    /\ ndi.ffmpeg_process = None /\ C35_Children = 0

(***************************************************************************)
(* Claims about the running display                                         *)
(***************************************************************************)

\* what __init__ chose: the three flags and the sender objects installed
C33_Choice(d) ==
    <<d.spout_enabled, d.ndi_enabled, d.streaming_enabled,
      d.spout_sender, d.ndi_sender, d.simple_streamer>>

\* the senders' own view of being in use
C33_InUse ==
    <<spout.is_initialized, spout.is_sending, ndi.is_initialized,
      ndi.is_sending, udp.is_initialized, udp.is_sending,
      http.is_initialized, http.is_sending>>

\* C33: once __init__ has chosen the sink, no step changes spout_enabled,
\* ndi_enabled, streaming_enabled or the sender objects installed, whatever
\* the send of an update() returns or raises; and no step but close() stops
\* a sender.
C33_ChoiceIsFinal ==
    [][(sut = "display" /\ display.pc = "running") =>
         /\ C33_Choice(display') = C33_Choice(display)
         /\ display'.pc = "running" => C33_InUse' = C33_InUse]_vars

\* a chosen sender was offered frames, the last send failed, and the choice
\* stands
C33_Witness ==
    /\ sut = "display" /\ display.pc = "running"
    /\ display.streaming_enabled
    /\ Len(dlog.offered) >= 2
    /\ \/ /\ display.ndi_enabled /\ nlog.call # NoCall /\ ~nlog.call.ret
       \/ /\ display.simple_streamer = "udp" /\ ulog.call # NoCall
          /\ ~ulog.call.ret

\* the sender __init__ chose, or None
C37_Chosen ==
    IF ~display.streaming_enabled THEN None
    ELSE IF display.spout_enabled /\ display.spout_sender # None
      THEN display.spout_sender
    ELSE IF display.ndi_enabled /\ display.ndi_sender # None
      THEN display.ndi_sender
    ELSE display.simple_streamer

\* C37: after every update() syphon_update_counter is within 0..3 (the
\* number of update() calls modulo 4); a chosen NDI sender or simple streamer
\* is offered a frame by the 4th, 8th, ... update() call and by no other, a
\* chosen Spout sender by every update() call.
C37_DispatchCadence ==
    /\ [](sut = "display" =>
            /\ display.syphon_update_counter \in 0..3
            /\ display.syphon_update_counter = dlog.updates % 4)
    /\ [][(sut = "display" /\ dlog'.updates # dlog.updates) =>
            /\ dlog'.updates = dlog.updates + 1
            /\ IF C37_Chosen = "spout"
                    \/ (C37_Chosen # None /\ dlog'.updates % 4 = 0)
                 THEN dlog'.offered = Append(dlog.offered, C37_Chosen)
                 ELSE dlog'.offered = dlog.offered]_vars

\* eight update() calls were made and the chosen NDI sender or simple
\* streamer was offered two frames
C37_Witness ==
    /\ sut = "display" /\ dlog.updates = 8
    /\ C37_Chosen \in {"ndi", "udp", "http"}
    /\ dlog.offered = <<C37_Chosen, C37_Chosen>>

(***************************************************************************)
(* Claims about the headlines of the ticker                                 *)
(***************************************************************************)

\* C38: scrolling_queue never holds the same headline text twice, also with
\* show_news called from several monitor_feed threads at the same time while
\* update() runs on the main thread.
C38_NoHeadlineTwice ==
    \A j, k \in 1..Len(scrolling_queue) :
        j # k => scrolling_queue[j] # scrolling_queue[k]

=============================================================================
